---- MODULE Spec2Model ----
(***************************************************************************)
(* nitpix: the task queue (QueueManager), the review server's handlers     *)
(* and the watcher's dispatch loop, as state machines.                     *)
(*                                                                         *)
(*   SpecQueue  the queue document under QueueManager's operations         *)
(*   SpecStore  queue.json / queue.json.bak / queue.json.tmp under         *)
(*              read(), write(), crashes and outside corruption            *)
(*   SpecServer the server's handlers under the requests of its clients    *)
(*   SpecTask   the server's mutating requests on whole Task records, read *)
(*              and write as separate steps, with the screenshot files     *)
(*   SpecSse    the server's event subscribers under broadcast()           *)
(*   Spec       one watcher, the server and the agent subprocesses, with   *)
(*              failing requests and a breaking event connection           *)
(*   SpecStop   the same watcher with stop() called at any point           *)
(*   SpecTimeout the watcher of Spec, started with or without an agent     *)
(*              timeout                                                    *)
(***************************************************************************)
EXTENDS Integers, Sequences, FiniteSets, TLC

(***************************************************************************)
(* Bounds of the model.                                                    *)
(***************************************************************************)
MaxItems == 3        \* tasks ever created in SpecQueue
MaxWrites == 3       \* write() calls in SpecStore
MaxCrash == 2        \* crashes in SpecStore
MaxCorrupt == 2      \* outside corruptions in SpecStore
NumTasks == 2        \* tasks ever created in Spec and SpecServer
MaxSpawns == 2       \* agent subprocesses spawned in Spec
MaxSse == 1          \* events in flight on the watcher's event stream
MaxActivity == 1     \* activity entries per task in SpecServer
MaxFail == 1         \* requests and spawns of the watcher that fail
MaxDrop == 1         \* breaks of the event connection
MaxFaults == 1       \* failures and breaks together in one behaviour of Spec
MaxDisconnects == 7  \* breaks and refusals of the event connection in SpecReconnect

(***************************************************************************)
(* Program constants.                                                      *)
(***************************************************************************)
DEFAULT_MAX_RETRIES == 2

DEFAULT_AGENT_TIMEOUT == 600000

PRIORITY_ORDER == [high |-> 0, medium |-> 1, low |-> 2]

VALID_STATUSES == {"pending", "in_progress", "review", "done"}

VALID_UPDATE_FIELDS ==
  {"status", "agentNotes", "filesModified", "afterScreenshot",
   "attempts", "note", "category", "priority"}

Priorities == DOMAIN PRIORITY_ORDER

\* "null" where the code returns or holds null
NoTask == [id |-> 0, createdAt |-> 0, priority |-> "none", status |-> "none", attempts |-> 0]

VARIABLES
  queue,       \* the queue document's items, in document order
  nextId,      \* ids handed out so far (randomUUID never repeats one)
  clock,       \* the millisecond the last createdAt was taken in
  ret,         \* SpecQueue: what the last QueueManager call returned
  primary,     \* queue.json
  backup,      \* queue.json.bak
  tmp,         \* queue.json.tmp
  opc,         \* where the store operation in progress stands
  opIntent,    \* "read" (getTask, getStatus, ...) or "mutate" (read, then write)
  opData,      \* write(): the serialized document; read(): the backup text read
  opCopied,    \* write(): whether the backup copy of this write succeeded
  readResult,  \* what the last read() returned
  readPath,    \* which return statement of read() returned it
  completed,   \* history: the documents of the write() calls that returned, in order
  nWrites,     \* history: write() calls started
  nCrash,      \* history: crashes of the process
  nCorrupt,    \* history: times queue.json or queue.json.bak was overwritten from outside
  lastCrash,   \* history: opc when the process last crashed
  healCrash,   \* history: the document read()'s self-healing copy was writing when it crashed
  backupIsPrev, \* history: every step since the write before the newest ran undisturbed
  taskActivity, \* server: entries in the activity list of each task id, 0 for no list
  wsub,        \* server: the watcher's response is in sseClients
  sse,         \* events written to the watcher's event stream and not yet read by it
  resp,        \* SpecServer: the response to the last request of a client
  pendingQueue,   \* watcher: ids of tasks it was told are pending, in arrival order
  processing,     \* watcher: a kickProcessing is between its first await and its finally
  currentProcess, \* watcher: the subprocess handle held, 0 for null
  currentTaskId,  \* watcher: 0 for null
  stopped,        \* watcher: stop() was called
  reconnectDelay, \* watcher: milliseconds before the next reconnect
  kpc,         \* watcher: where kickProcessing / processTask stands
  kreq,        \* watcher: the request kickProcessing / processTask awaits
  retryTimers, \* watcher: pending setTimeout(() => kickProcessing(), 5000)
  conn,        \* watcher: the state of the event connection
  yreq,        \* watcher: the request syncAndReconnect awaits
  spc,         \* watcher: where stop() stands
  sreq,        \* watcher: the request stop() awaits
  stopChild,   \* watcher: the subprocess stop() waits for
  timers,      \* watcher: pending kill timers
  procs,       \* the agent subprocesses spawned so far
  nFail,       \* history: requests and spawns of the watcher that failed
  nDrop,       \* history: times the event connection broke or was refused
  cancelled,   \* history: tasks cancelled while the watcher held them as current
  lastUpdated, \* SpecTask: the document's lastUpdated, set by write()
  shots,       \* SpecTask: the files of the screenshots directory
  inflight,    \* SpecTask: the requests the server is handling, each with the document it read
  cleanup,     \* SpecTask: files a cleanupScreenshots running in the background has yet to unlink
  deleted,     \* history: ids for which deleteTask returned true
  nCalls,      \* history: mutating calls begun in SpecTask
  sseClients,  \* SpecSse: the responses in the server's sseClients set
  conns,       \* SpecSse: each event connection: new, open, lost (closed, listener not yet run), closed
  streams,     \* SpecSse: the events written to each connection's response, in order
  nSent,       \* history: broadcasts made in SpecSse
  panelTasks,  \* SpecPanel: each side panel's tasks array, as a sequence of task objects
  panelEvents, \* SpecPanel: the events written to each side panel and not yet handled by it
  panelRetry,  \* SpecPanel: the retryTask call each side panel has in progress
  nRetry,      \* history: retries begun in SpecPanel
  stdoutAll,    \* SpecStdout: the bytes the agent writes to its stdout in its whole run
  stdoutRest,   \* SpecStdout: the bytes not yet read by the watcher
  stdoutBuffer, \* SpecStdout: the text the data listener keeps between chunks
  stdoutEnded,  \* SpecStdout: the end listener has run
  posted,       \* SpecStdout: the activities posted so far, in order
  agentTimeout \* watcher option: milliseconds an agent may run, fixed at start

(***************************************************************************)
(* Groups of variables.                                                    *)
(***************************************************************************)
queueVars == << queue, nextId, clock, ret >>

storeVars == << primary, backup, tmp, opc, opIntent, opData, opCopied, readResult,
                readPath, completed, nWrites, nCrash, nCorrupt, lastCrash, healCrash,
                backupIsPrev >>

histVars == << completed, nWrites, nCrash, nCorrupt, lastCrash >>

dispatchVars ==
  << taskActivity, wsub, sse, pendingQueue, processing, currentProcess, currentTaskId,
     stopped, reconnectDelay, kpc, kreq, retryTimers, conn, yreq, spc, sreq,
     stopChild, timers, procs, nFail, nDrop, cancelled >>

taskVars == << lastUpdated, shots, inflight, cleanup, deleted, nCalls >>

hubVars == << sseClients, conns, streams, nSent >>

panelVars == << panelTasks, panelEvents, panelRetry, nRetry >>

outputVars == << stdoutAll, stdoutRest, stdoutBuffer, stdoutEnded, posted >>

options == << agentTimeout >>

notQueue == << storeVars, dispatchVars, resp, taskVars, hubVars, panelVars, outputVars, options >>

notStore == << queueVars, dispatchVars, resp, taskVars, hubVars, panelVars, outputVars, options >>

notDispatch == << ret, resp, storeVars, taskVars, hubVars, panelVars, outputVars, options >>

vars == << queueVars, storeVars, dispatchVars, resp, taskVars, hubVars, panelVars, outputVars, options >>

(***************************************************************************)
(* QueueManager, on the document.                                          *)
(***************************************************************************)

\* a comparator whose secondary key is reversed: newest first
ComparePendingNewestFirst(a, b) ==
  LET pd == PRIORITY_ORDER[a.priority] - PRIORITY_ORDER[b.priority]
  IN IF pd # 0 THEN pd ELSE b.createdAt - a.createdAt

\* the comparator handed to Array.prototype.sort in getNextPending
ComparePending(a, b) ==
  LET pd == PRIORITY_ORDER[a.priority] - PRIORITY_ORDER[b.priority]
  IN IF pd # 0 THEN pd ELSE a.createdAt - b.createdAt

\* Array.prototype.sort is stable: x goes behind every element that does
\* not compare greater than it
RECURSIVE InsertSorted(_, _)
InsertSorted(s, x) ==
  IF s = << >> THEN << x >>
  ELSE IF ComparePending(s[Len(s)], x) <= 0
       THEN Append(s, x)
       ELSE Append(InsertSorted(SubSeq(s, 1, Len(s) - 1), x), s[Len(s)])

RECURSIVE SortPending(_)
SortPending(s) ==
  IF s = << >> THEN << >>
  ELSE InsertSorted(SortPending(SubSeq(s, 1, Len(s) - 1)), s[Len(s)])

IsPending(t) == t.status = "pending"

getNextPending(items) ==
  LET pending == SortPending(SelectSeq(items, IsPending))
  IN IF pending = << >> THEN NoTask ELSE pending[1]

\* items.findIndex((t) => t.id === id), 0 for -1
RECURSIVE FindIndex(_, _)
FindIndex(items, id) ==
  IF items = << >> THEN 0
  ELSE IF items[Len(items)].id = id /\ FindIndex(SubSeq(items, 1, Len(items) - 1), id) = 0
       THEN Len(items)
       ELSE FindIndex(SubSeq(items, 1, Len(items) - 1), id)

getTask(items, id) ==
  IF FindIndex(items, id) = 0 THEN NoTask ELSE items[FindIndex(items, id)]

\* addTask with a screenshot that passes the signature check
addTask(items, id, now, priority) ==
  Append(items, [id |-> id, createdAt |-> now, priority |-> priority,
                 status |-> "pending", attempts |-> 0])

\* an updateTask that merges every field of the payload
updateTaskUnfiltered(items, id, updates) ==
  LET index == FindIndex(items, id)
  IN IF index = 0
     THEN [kind |-> "null", items |-> items, task |-> NoTask]
     ELSE IF "status" \in DOMAIN updates /\ updates["status"] \notin VALID_STATUSES
     THEN [kind |-> "throw", items |-> items, task |-> NoTask]
     ELSE LET task == [f \in DOMAIN items[index] \cup DOMAIN updates |->
                         IF f \in DOMAIN updates THEN updates[f] ELSE items[index][f]]
          IN [kind |-> "ok", items |-> [items EXCEPT ![index] = task], task |-> task]

\* an updateTask that does not validate the status
updateTaskAnyStatus(items, id, updates) ==
  LET index == FindIndex(items, id)
      filtered == [k \in DOMAIN updates \cap VALID_UPDATE_FIELDS |-> updates[k]]
  IN IF index = 0
     THEN [kind |-> "null", items |-> items, task |-> NoTask]
     ELSE LET task == [f \in DOMAIN items[index] \cup DOMAIN filtered |->
                         IF f \in DOMAIN filtered THEN filtered[f] ELSE items[index][f]]
          IN [kind |-> "ok", items |-> [items EXCEPT ![index] = task], task |-> task]

\* updateTask: kind is "null" (unknown id), "throw" (invalid status) or "ok"
updateTask(items, id, updates) ==
  LET index == FindIndex(items, id)
      filtered == [k \in DOMAIN updates \cap VALID_UPDATE_FIELDS |-> updates[k]]
  IN IF index = 0
     THEN [kind |-> "null", items |-> items, task |-> NoTask]
     ELSE IF "status" \in DOMAIN filtered /\ filtered["status"] \notin VALID_STATUSES
     THEN [kind |-> "throw", items |-> items, task |-> NoTask]
     ELSE LET task == [f \in DOMAIN items[index] \cup DOMAIN filtered |->
                         IF f \in DOMAIN filtered THEN filtered[f] ELSE items[index][f]]
          IN [kind |-> "ok", items |-> [items EXCEPT ![index] = task], task |-> task]

deleteTask(items, id) ==
  LET Keep(t) == t.id # id
  IN IF FindIndex(items, id) = 0
     THEN [found |-> FALSE, items |-> items]
     ELSE [found |-> TRUE, items |-> SelectSeq(items, Keep)]

(***************************************************************************)
(* SpecQueue: the queue document under calls of QueueManager.              *)
(***************************************************************************)
NoReturn == [op |-> "none", task |-> NoTask]

InitQueue ==
  /\ queue = << >>
  /\ nextId = 0
  /\ clock = 0
  /\ ret = NoReturn

\* addTask, at a later millisecond than the task before
QAddTask(priority, now) ==
  /\ nextId < MaxItems
  /\ now \in {clock, clock + 1}
  /\ clock' = now
  /\ nextId' = nextId + 1
  /\ queue' = addTask(queue, nextId + 1, now, priority)
  /\ ret' = NoReturn
  /\ UNCHANGED notQueue

\* updateTask, with a valid status
QUpdateTask(id, updates) ==
  /\ updateTask(queue, id, updates).kind = "ok"
  /\ queue' = updateTask(queue, id, updates).items
  /\ updateTask(queue, id, updates).items # queue
  /\ ret' = NoReturn
  /\ UNCHANGED << nextId, clock >>
  /\ UNCHANGED notQueue

QDeleteTask(id) ==
  /\ deleteTask(queue, id).found
  /\ queue' = deleteTask(queue, id).items
  /\ ret' = NoReturn
  /\ UNCHANGED << nextId, clock >>
  /\ UNCHANGED notQueue

QGetNextPending ==
  /\ ret' = [op |-> "getNextPending", task |-> getNextPending(queue)]
  /\ UNCHANGED << queue, nextId, clock >>
  /\ UNCHANGED notQueue

\* getStatus: the counts of a full read
getStatus(items) ==
  [totalItems |-> Len(items),
   pending |-> Len(SelectSeq(items, LAMBDA t : t.status = "pending")),
   inProgress |-> Len(SelectSeq(items, LAMBDA t : t.status = "in_progress")),
   review |-> Len(SelectSeq(items, LAMBDA t : t.status = "review")),
   done |-> Len(SelectSeq(items, LAMBDA t : t.status = "done"))]

QGetStatus ==
  /\ ret' = [op |-> "getStatus", task |-> NoTask, status |-> getStatus(queue)]
  /\ UNCHANGED << queue, nextId, clock >>
  /\ UNCHANGED notQueue

\* the statuses callers ask for, one of them not a status
QueueUpdates == {[status |-> st] : st \in VALID_STATUSES \cup {"bogus"}}

NextQueue ==
  \/ \E priority \in Priorities, now \in 1..(MaxItems + 1) : QAddTask(priority, now)
  \/ \E id \in 1..MaxItems, updates \in QueueUpdates : QUpdateTask(id, updates)
  \/ \E id \in 1..MaxItems : QDeleteTask(id)
  \/ QGetNextPending
  \/ QGetStatus


(***************************************************************************)
(* QueueManager.read() and write(), on the files.                          *)
(*                                                                         *)
(* A file is absent, holds the full text of a document, holds a torn       *)
(* (partly written) text, or holds garbage put there from outside.  The    *)
(* text of a document is named by the write() call that serialized it;     *)
(* 0 names the text of the empty document.                                 *)
(***************************************************************************)
NoFile == [state |-> "absent", doc |-> 0]
Garbage == [state |-> "garbage", doc |-> 0]
Full(n) == [state |-> "full", doc |-> n]
Torn(n) == [state |-> "partial", doc |-> n]

\* the Queue a JSON text parses to; items names the item list, 0 the empty one
Doc(n) == [version |-> 1, items |-> n]

emptyQueue == Doc(0)

\* an exception leaving read()
Thrown == [version |-> 0, items |-> 0]

existsSync(f) == f.state # "absent"

\* JSON.parse(await readFile(f)) returns
Parses(f) == f.state = "full"

Parse(f) == Doc(f.doc)

LastCompleted == IF completed = << >> THEN 0 ELSE completed[Len(completed)]

InitStore ==
  /\ primary = NoFile
  /\ backup = NoFile
  /\ tmp = NoFile
  /\ opc = "idle"
  /\ opIntent = "read"
  /\ opData = 0
  /\ opCopied = FALSE
  /\ readResult = emptyQueue
  /\ readPath = "none"
  /\ completed = << >>
  /\ nWrites = 0
  /\ nCrash = 0
  /\ nCorrupt = 0
  /\ lastCrash = "none"
  /\ healCrash = 0
  /\ backupIsPrev = FALSE

\* a call of read() alone (getTask, getNextPending, getStatus, GET /api/tasks)
StartRead ==
  /\ opc = "idle"
  /\ opc' = "r_primary"
  /\ opIntent' = "read"
  /\ UNCHANGED << primary, backup, tmp, opData, opCopied, readResult, readPath,
                  healCrash, backupIsPrev >>
  /\ UNCHANGED histVars
  /\ UNCHANGED notStore

\* a mutation (addTask, updateTask, deleteTask, saveAfterScreenshot): read(), then write()
StartMutate ==
  /\ opc = "idle"
  /\ nWrites < MaxWrites
  /\ opc' = "r_primary"
  /\ opIntent' = "mutate"
  /\ UNCHANGED << primary, backup, tmp, opData, opCopied, readResult, readPath,
                  healCrash, backupIsPrev >>
  /\ UNCHANGED histVars
  /\ UNCHANGED notStore

\* read(): the outer try, and the existsSync(backupPath) test of its catch
ReadPrimary ==
  /\ opc = "r_primary"
  /\ IF Parses(primary)
     THEN /\ opc' = "r_ret"
          /\ readResult' = Parse(primary)
          /\ readPath' = "primary"
     ELSE IF existsSync(backup)
     THEN /\ opc' = "r_backup"
          /\ UNCHANGED << readResult, readPath >>
     ELSE /\ opc' = "r_ret"
          /\ readResult' = emptyQueue
          /\ readPath' = "empty"
  /\ UNCHANGED << primary, backup, tmp, opIntent, opData, opCopied, healCrash, backupIsPrev >>
  /\ UNCHANGED histVars
  /\ UNCHANGED notStore

\* a read() whose inner try is missing: a bad backup leaves it as an exception
ReadBackupThrows ==
  /\ opc = "r_backup"
  /\ IF Parses(backup)
     THEN /\ opc' = "r_healing"
          /\ opData' = backup.doc
          /\ primary' = Torn(backup.doc)
          /\ UNCHANGED << readResult, readPath >>
     ELSE /\ opc' = "r_ret"
          /\ readResult' = Thrown
          /\ readPath' = "throw"
          /\ UNCHANGED << opData, primary >>
  /\ UNCHANGED << backup, tmp, opIntent, opCopied, healCrash, backupIsPrev >>
  /\ UNCHANGED histVars
  /\ UNCHANGED notStore

\* read(): the inner try up to the start of writeFile(queuePath, backup), which
\* truncates queue.json; a backup that does not parse falls through to emptyQueue()
ReadBackup ==
  /\ opc = "r_backup"
  /\ IF Parses(backup)
     THEN /\ opc' = "r_healing"
          /\ opData' = backup.doc
          /\ primary' = Torn(backup.doc)
          /\ UNCHANGED << readResult, readPath >>
     ELSE /\ opc' = "r_ret"
          /\ readResult' = emptyQueue
          /\ readPath' = "empty"
          /\ UNCHANGED << opData, primary >>
  /\ UNCHANGED << backup, tmp, opIntent, opCopied, healCrash, backupIsPrev >>
  /\ UNCHANGED histVars
  /\ UNCHANGED notStore

\* read(): writeFile(queuePath, backup) completes and the backup's queue is returned
ReadHealEnd ==
  /\ opc = "r_healing"
  /\ primary' = Full(opData)
  /\ opc' = "r_ret"
  /\ readResult' = Doc(opData)
  /\ readPath' = "backup"
  /\ UNCHANGED << backup, tmp, opIntent, opData, opCopied, healCrash, backupIsPrev >>
  /\ UNCHANGED histVars
  /\ UNCHANGED notStore

\* the caller goes on: a reader is done, a mutation calls write() with a new document
AfterRead ==
  /\ opc = "r_ret"
  /\ IF opIntent = "read"
     THEN /\ opc' = "idle"
          /\ UNCHANGED << opData, opCopied, nWrites >>
     ELSE /\ opc' = "w_backup"
          /\ nWrites' = nWrites + 1
          /\ opData' = nWrites + 1
          /\ opCopied' = FALSE
  /\ healCrash' = 0
  /\ UNCHANGED << primary, backup, tmp, opIntent, readResult, readPath, backupIsPrev,
                  completed, nCrash, nCorrupt, lastCrash >>
  /\ UNCHANGED notStore

\* write(): existsSync(queuePath), and copyFile starts overwriting queue.json.bak
WriteBackup ==
  /\ opc = "w_backup"
  /\ IF existsSync(primary)
     THEN /\ backup' = Torn(primary.doc)
          /\ backupIsPrev' = FALSE
          /\ opc' = "w_copying"
     ELSE /\ opc' = "w_tmp"
          /\ UNCHANGED << backup, backupIsPrev >>
  /\ UNCHANGED << primary, tmp, opIntent, opData, opCopied, readResult, readPath, healCrash >>
  /\ UNCHANGED histVars
  /\ UNCHANGED notStore

\* write(): copyFile fails, before or after it started on queue.json.bak; the
\* catch ignores it
WriteBackupFail ==
  /\ opc \in {"w_backup", "w_copying"}
  /\ existsSync(primary)
  /\ opc' = "w_tmp"
  /\ backupIsPrev' = FALSE
  /\ UNCHANGED << primary, backup, tmp, opIntent, opData, opCopied, readResult, readPath,
                  healCrash >>
  /\ UNCHANGED histVars
  /\ UNCHANGED notStore

\* a write() that takes its backup from the document being written
WriteBackupEndNew ==
  /\ opc = "w_copying"
  /\ backup' = Full(opData)
  /\ opCopied' = (primary = Full(LastCompleted))
  /\ opc' = "w_tmp"
  /\ UNCHANGED << primary, tmp, opIntent, opData, readResult, readPath, healCrash,
                  backupIsPrev >>
  /\ UNCHANGED histVars
  /\ UNCHANGED notStore

\* write(): copyFile completes
WriteBackupEnd ==
  /\ opc = "w_copying"
  /\ backup' = primary
  /\ opCopied' = (primary = Full(LastCompleted))
  /\ opc' = "w_tmp"
  /\ UNCHANGED << primary, tmp, opIntent, opData, readResult, readPath, healCrash,
                  backupIsPrev >>
  /\ UNCHANGED histVars
  /\ UNCHANGED notStore

\* write(): writeFile(tmpPath, data) starts
WriteTmp ==
  /\ opc = "w_tmp"
  /\ tmp' = Torn(opData)
  /\ opc' = "w_tmpwriting"
  /\ UNCHANGED << primary, backup, opIntent, opData, opCopied, readResult, readPath,
                  healCrash, backupIsPrev >>
  /\ UNCHANGED histVars
  /\ UNCHANGED notStore

\* write(): writeFile(tmpPath, data) completes
WriteTmpEnd ==
  /\ opc = "w_tmpwriting"
  /\ tmp' = Full(opData)
  /\ opc' = "w_rename"
  /\ UNCHANGED << primary, backup, opIntent, opData, opCopied, readResult, readPath,
                  healCrash, backupIsPrev >>
  /\ UNCHANGED histVars
  /\ UNCHANGED notStore

\* a rename that is a copy onto queue.json: queue.json is torn until the copy ends
WriteRenameTorn ==
  /\ \/ /\ opc = "w_rename"
        /\ primary' = Torn(opData)
        /\ opc' = "w_renaming"
        /\ tmp' = tmp
     \/ /\ opc = "w_renaming"
        /\ primary' = Full(opData)
        /\ opc' = "w_ret"
        /\ tmp' = NoFile
  /\ UNCHANGED << backup, opIntent, opData, opCopied, readResult, readPath, healCrash,
                  backupIsPrev >>
  /\ UNCHANGED histVars
  /\ UNCHANGED notStore

\* write(): rename(tmpPath, queuePath), atomic
WriteRename ==
  /\ opc = "w_rename"
  /\ primary' = tmp
  /\ tmp' = NoFile
  /\ opc' = "w_ret"
  /\ UNCHANGED << backup, opIntent, opData, opCopied, readResult, readPath, healCrash,
                  backupIsPrev >>
  /\ UNCHANGED histVars
  /\ UNCHANGED notStore

\* write() returns to its caller
WriteReturn ==
  /\ opc = "w_ret"
  /\ completed' = Append(completed, opData)
  /\ backupIsPrev' = opCopied
  /\ opc' = "idle"
  /\ UNCHANGED << primary, backup, tmp, opIntent, opData, opCopied, readResult, readPath,
                  healCrash, nWrites, nCrash, nCorrupt, lastCrash >>
  /\ UNCHANGED notStore

\* the process dies in the middle of an operation and is started again
Crash ==
  /\ opc # "idle"
  /\ nCrash < MaxCrash
  /\ nCrash' = nCrash + 1
  /\ lastCrash' = opc
  /\ healCrash' = IF opc = "r_healing" THEN opData ELSE 0
  /\ opc' = "idle"
  /\ UNCHANGED << primary, backup, tmp, opIntent, opData, opCopied, readResult, readPath,
                  backupIsPrev, completed, nWrites, nCorrupt >>
  /\ UNCHANGED notStore

\* between two operations queue.json is overwritten or removed from outside
CorruptPrimary ==
  /\ opc = "idle"
  /\ nCorrupt < MaxCorrupt
  /\ existsSync(primary)
  /\ primary' \in {Garbage, NoFile}
  /\ nCorrupt' = nCorrupt + 1
  /\ UNCHANGED << backup, tmp, opc, opIntent, opData, opCopied, readResult, readPath,
                  healCrash, backupIsPrev, completed, nWrites, nCrash, lastCrash >>
  /\ UNCHANGED notStore

\* between two operations queue.json.bak is overwritten or removed from outside
CorruptBackup ==
  /\ opc = "idle"
  /\ nCorrupt < MaxCorrupt
  /\ existsSync(backup)
  /\ backup' \in {Garbage, NoFile}
  /\ nCorrupt' = nCorrupt + 1
  /\ backupIsPrev' = FALSE
  /\ healCrash' = 0
  /\ UNCHANGED << primary, tmp, opc, opIntent, opData, opCopied, readResult, readPath,
                  completed, nWrites, nCrash, lastCrash >>
  /\ UNCHANGED notStore

NextStore ==
  \/ StartRead
  \/ StartMutate
  \/ ReadPrimary
  \/ ReadBackup
  \/ ReadHealEnd
  \/ AfterRead
  \/ WriteBackup
  \/ WriteBackupFail
  \/ WriteBackupEnd
  \/ WriteTmp
  \/ WriteTmpEnd
  \/ WriteRename
  \/ WriteReturn
  \/ Crash
  \/ CorruptPrimary
  \/ CorruptBackup


(***************************************************************************)
(* The server's handlers: what a request does to the queue document and    *)
(* the activity map, what it answers and what it broadcasts.               *)
(***************************************************************************)
TaskIds == 1..NumTasks

\* the priority the tasks of Spec, SpecStop and SpecServer are created with
CreatePriorities == {"medium"}

Event(type, id, status) == [type |-> type, id |-> id, status |-> status]

Reply(code, items, activity, events, task) ==
  [code |-> code, items |-> items, activity |-> activity, events |-> events, task |-> task]

\* taskActivity.delete(id)
ActivityDelete(activity, id) ==
  [i \in DOMAIN activity |-> IF i = id THEN 0 ELSE activity[i]]

\* GET /api/tasks/next
HandleNext(items, activity) ==
  Reply(200, items, activity, << >>, getNextPending(items))

\* GET /api/tasks/:id
HandleGetTask(items, activity, id) ==
  IF getTask(items, id) = NoTask
  THEN Reply(404, items, activity, << >>, NoTask)
  ELSE Reply(200, items, activity, << >>, getTask(items, id))

\* POST /api/tasks
HandleCreate(items, activity, id, now, priority) ==
  LET added == addTask(items, id, now, priority)
  IN Reply(201, added, activity, << Event("task_created", id, "pending") >>,
           added[Len(added)])

\* PUT /api/tasks/:id
HandlePut(items, activity, id, updates) ==
  LET u == updateTask(items, id, updates)
  IN IF "status" \in DOMAIN updates /\ updates["status"] \notin VALID_STATUSES
     THEN Reply(400, items, activity, << >>, NoTask)
     ELSE IF u.kind = "null"
     THEN Reply(404, items, activity, << >>, NoTask)
     ELSE Reply(200, u.items,
                IF u.task.status # "in_progress" THEN ActivityDelete(activity, id)
                                                 ELSE activity,
                << Event("task_updated", id, u.task.status) >>, u.task)

\* DELETE /api/tasks/:id
HandleDelete(items, activity, id) ==
  LET d == deleteTask(items, id)
  IN IF ~d.found
     THEN Reply(404, items, activity, << >>, NoTask)
     ELSE Reply(200, d.items, ActivityDelete(activity, id),
                << Event("task_deleted", id, "none") >>, NoTask)

\* POST /api/tasks/:id/activity, with a valid activity type
HandleActivity(items, activity, id) ==
  IF getTask(items, id) = NoTask
  THEN Reply(404, items, activity, << >>, NoTask)
  ELSE Reply(200, items, [activity EXCEPT ![id] = @ + 1],
             << Event("task_activity", id, "none") >>, NoTask)

\* a cancel that puts the task back in the queue
HandleCancelRequeues(items, activity, id) ==
  LET u == updateTask(items, id, [status |-> "pending"])
  IN IF u.kind = "null"
     THEN Reply(404, items, activity, << >>, NoTask)
     ELSE Reply(200, u.items, ActivityDelete(activity, id),
                << Event("task_cancel", id, "none"),
                   Event("task_updated", id, u.task.status) >>, u.task)

\* POST /api/tasks/:id/cancel
HandleCancel(items, activity, id) ==
  LET u == updateTask(items, id, [status |-> "done"])
  IN IF u.kind = "null"
     THEN Reply(404, items, activity, << >>, NoTask)
     ELSE Reply(200, u.items, ActivityDelete(activity, id),
                << Event("task_cancel", id, "none"),
                   Event("task_updated", id, u.task.status) >>, u.task)

\* the events whose handler in connect() does something: task_activity has no
\* handler, and the handler of task_updated returns unless the status is pending
IsHandled(e) ==
  \/ e.type \in {"task_created", "task_deleted", "task_cancel"}
  \/ e.type = "task_updated" /\ e.status = "pending"

\* broadcast(): written to the watcher's stream when it is in sseClients
CanBroadcast(events) ==
  ~wsub \/ Len(sse) + Len(SelectSeq(events, IsHandled)) <= MaxSse

Broadcast(events) ==
  sse' = IF wsub THEN sse \o SelectSeq(events, IsHandled) ELSE sse

\* the server applies a handler's reply
Serve(r) ==
  /\ CanBroadcast(r.events)
  /\ queue' = r.items
  /\ taskActivity' = r.activity
  /\ Broadcast(r.events)

(***************************************************************************)
(* SpecServer: the server under the requests of any client, with one       *)
(* subscriber on /api/events that sees every event.                        *)
(***************************************************************************)
MaxEvents == 2       \* events written to the subscriber of SpecServer and not yet read

NoResp == [op |-> "none", id |-> 0, code |-> 0, task |-> NoTask, activity |-> 0]

Resp(op, id, r) == [op |-> op, id |-> id, code |-> r.code, task |-> r.task, activity |-> 0]

watcherVars ==
  << pendingQueue, processing, currentProcess, currentTaskId, stopped, reconnectDelay,
     kpc, kreq, retryTimers, conn, yreq, spc, sreq, stopChild, timers, procs, nFail,
     nDrop, cancelled >>

notServer == << ret, storeVars, watcherVars, taskVars, hubVars, panelVars, outputVars, options >>

\* the server applies a handler's reply; the subscriber is sent every event
ServeAll(r) ==
  /\ ~wsub \/ Len(sse) + Len(r.events) <= MaxEvents
  /\ queue' = r.items
  /\ taskActivity' = r.activity
  /\ sse' = IF wsub THEN sse \o r.events ELSE sse

\* the statuses and fields clients send in a PUT
ClientUpdates ==
  {[status |-> st] : st \in VALID_STATUSES \cup {"bogus"}} \cup {[attempts |-> 1]}

\* GET /api/events
CSubscribe ==
  /\ ~wsub
  /\ wsub' = TRUE
  /\ UNCHANGED << queue, nextId, clock, taskActivity, sse, resp >>
  /\ UNCHANGED notServer

\* the subscriber reads one event
CReadEvent ==
  /\ sse # << >>
  /\ sse' = Tail(sse)
  /\ UNCHANGED << queue, nextId, clock, taskActivity, wsub, resp >>
  /\ UNCHANGED notServer

CCreate(priority) ==
  /\ nextId < NumTasks
  /\ nextId' = nextId + 1
  /\ clock' = clock + 1
  /\ ServeAll(HandleCreate(queue, taskActivity, nextId + 1, clock + 1, priority))
  /\ resp' = Resp("create", nextId + 1,
                  HandleCreate(queue, taskActivity, nextId + 1, clock + 1, priority))
  /\ UNCHANGED wsub
  /\ UNCHANGED notServer

CPut(id, updates) ==
  /\ ServeAll(HandlePut(queue, taskActivity, id, updates))
  /\ resp' = Resp("put", id, HandlePut(queue, taskActivity, id, updates))
  /\ UNCHANGED << nextId, clock, wsub >>
  /\ UNCHANGED notServer

CDelete(id) ==
  /\ ServeAll(HandleDelete(queue, taskActivity, id))
  /\ resp' = Resp("delete", id, HandleDelete(queue, taskActivity, id))
  /\ UNCHANGED << nextId, clock, wsub >>
  /\ UNCHANGED notServer

CActivity(id) ==
  /\ taskActivity[id] < MaxActivity
  /\ ServeAll(HandleActivity(queue, taskActivity, id))
  /\ resp' = Resp("activity", id, HandleActivity(queue, taskActivity, id))
  /\ UNCHANGED << nextId, clock, wsub >>
  /\ UNCHANGED notServer

CCancel(id) ==
  /\ ServeAll(HandleCancel(queue, taskActivity, id))
  /\ resp' = Resp("cancel", id, HandleCancel(queue, taskActivity, id))
  /\ UNCHANGED << nextId, clock, wsub >>
  /\ UNCHANGED notServer

CGetTask(id) ==
  /\ resp' = Resp("getTask", id, HandleGetTask(queue, taskActivity, id))
  /\ UNCHANGED << queue, nextId, clock, taskActivity, wsub, sse >>
  /\ UNCHANGED notServer

\* GET /api/tasks/:id/activity
CGetActivity(id) ==
  /\ resp' = [Resp("getActivity", id, HandleGetTask(queue, taskActivity, id))
                EXCEPT !.task = NoTask,
                       !.activity = IF getTask(queue, id) = NoTask THEN 0
                                    ELSE taskActivity[id]]
  /\ UNCHANGED << queue, nextId, clock, taskActivity, wsub, sse >>
  /\ UNCHANGED notServer

NextServer ==
  \/ CSubscribe
  \/ CReadEvent
  \/ \E priority \in CreatePriorities : CCreate(priority)
  \/ \E id \in TaskIds, updates \in ClientUpdates : CPut(id, updates)
  \/ \E id \in TaskIds : CDelete(id)
  \/ \E id \in TaskIds : CActivity(id)
  \/ \E id \in TaskIds : CCancel(id)
  \/ \E id \in TaskIds : CGetTask(id)
  \/ \E id \in TaskIds : CGetActivity(id)

(***************************************************************************)
(* The watcher (startWatcher), the agent subprocesses and the people       *)
(* using the side panel.                                                   *)
(***************************************************************************)
NoReq == [stage |-> "none", id |-> 0, task |-> NoTask]
Sent(id) == [stage |-> "sent", id |-> id, task |-> NoTask]
Answered(id, task) == [stage |-> "done", id |-> id, task |-> task]

NoSync == [stage |-> "none", pending |-> << >>]

\* the watcher after init() has run against an empty queue and asked for the
\* event stream
InitDispatch ==
  /\ taskActivity = [i \in TaskIds |-> 0]
  /\ wsub = FALSE
  /\ sse = << >>
  /\ pendingQueue = << >>
  /\ processing = FALSE
  /\ currentProcess = 0
  /\ currentTaskId = 0
  /\ stopped = FALSE
  /\ reconnectDelay = 1000
  /\ kpc = "idle"
  /\ kreq = NoReq
  /\ retryTimers = 0
  /\ conn = "connecting"
  /\ yreq = NoSync
  /\ spc = "none"
  /\ sreq = NoReq
  /\ stopChild = 0
  /\ timers = {}
  /\ procs = << >>
  /\ nFail = 0
  /\ nDrop = 0
  /\ cancelled = {}

Timer(kind, child) == [kind |-> kind, child |-> child]

Running(c) == c \in DOMAIN procs /\ procs[c].state = "running"

Alive == {c \in DOMAIN procs : procs[c].state = "running"}

SigRank == [none |-> 0, SIGTERM |-> 1, SIGKILL |-> 2]

\* child.kill(signal): nothing for no handle or a subprocess that has exited
Kill(ps, c, signal) ==
  IF c \in DOMAIN ps /\ ps[c].state = "running" /\ SigRank[ps[c].sig] < SigRank[signal]
  THEN [ps EXCEPT ![c].sig = signal]
  ELSE ps

Without(q, id) ==
  LET Keep(x) == x # id
  IN SelectSeq(q, Keep)

Contains(q, id) == \E i \in DOMAIN q : q[i] = id

\* a kickProcessing without the processing flag
KickUnguarded(q) ==
  IF ~stopped /\ q # << >>
  THEN /\ processing' = TRUE
       /\ kpc' = "next"
       /\ kreq' = Sent(0)
  ELSE UNCHANGED << processing, kpc, kreq >>

\* kickProcessing() up to its first await, called with pendingQueue = q
Kick(q) ==
  IF ~processing /\ ~stopped /\ q # << >>
  THEN /\ processing' = TRUE
       /\ kpc' = "next"
       /\ kreq' = Sent(0)
  ELSE UNCHANGED << processing, kpc, kreq >>

\* an enqueue that does not look at currentTaskId
RECURSIVE EnqueueAllAnyId(_, _)
EnqueueAllAnyId(q, ids) ==
  IF ids = << >> THEN q
  ELSE EnqueueAllAnyId(IF ~Contains(q, Head(ids)) THEN Append(q, Head(ids)) ELSE q,
                       Tail(ids))

\* enqueue(taskId) for each id of ids, in order
RECURSIVE EnqueueAll(_, _)
EnqueueAll(q, ids) ==
  IF ids = << >> THEN q
  ELSE EnqueueAll(IF ~Contains(q, Head(ids)) /\ Head(ids) # currentTaskId
                  THEN Append(q, Head(ids)) ELSE q,
                  Tail(ids))

\* the end of kickProcessing after processTask returned: finally, then the re-check
FinishAndRekick(q) ==
  IF ~stopped /\ q # << >>
  THEN /\ processing' = TRUE
       /\ kpc' = "next"
       /\ kreq' = Sent(0)
  ELSE /\ processing' = FALSE
       /\ kpc' = "idle"
       /\ kreq' = NoReq

\* a return inside the try of kickProcessing: finally only
FinishOnly ==
  /\ processing' = FALSE
  /\ kpc' = "idle"
  /\ kreq' = NoReq


maxRetries == DEFAULT_MAX_RETRIES

\* a check that lets a task through when its attempts equal the limit
ReachedMaxRetriesOffByOne(task) == maxRetries > 0 /\ task.attempts > maxRetries

\* kickProcessing: maxRetries > 0 && task.attempts.length >= maxRetries
ReachedMaxRetries(task) == maxRetries > 0 /\ task.attempts >= maxRetries

\* a status check that resets whatever is not done
NeedsResetUnlessDone(updated) == updated.status # "done"

\* processTask, after the agent's exit: updated.status === "in_progress"
NeedsReset(updated) == updated.status = "in_progress"

\* the watcher's process is there: stop() has not returned to the signal handler
\* of the command line, which exits
WatcherRuns == spc \notin {"done", "exited"}

\* the rest of stop() once it no longer waits for the subprocess
StopProceed ==
  IF currentTaskId # 0
  THEN /\ spc' = "get"
       /\ sreq' = Sent(currentTaskId)
  ELSE /\ spc' = "done"
       /\ sreq' = NoReq

\* a subprocess that has closed: its handle is never used again; whether it
\* had reported is kept
Closed(task, reported) ==
  [task |-> task, state |-> "closed", sig |-> "none", reported |-> reported]

\* connect()
Connect == conn' = IF stopped THEN "closed" ELSE "connecting"

\* enqueue(id) for each id of ids; kickProcessing runs at the first push
Enqueue(ids) ==
  /\ pendingQueue' = EnqueueAll(pendingQueue, ids)
  /\ IF EnqueueAll(pendingQueue, ids) # pendingQueue
     THEN Kick(EnqueueAll(pendingQueue, ids))
     ELSE UNCHANGED << processing, kpc, kreq >>

PendingIds(items) ==
  LET p == SelectSeq(items, IsPending)
  IN [i \in DOMAIN p |-> p[i].id]

(*------------------------- people at the side panel ----------------------*)
\* a new task is captured and posted
HumanCreate(priority) ==
  /\ nextId < NumTasks
  /\ nextId' = nextId + 1
  /\ clock' = clock + 1
  /\ Serve(HandleCreate(queue, taskActivity, nextId + 1, clock + 1, priority))
  /\ UNCHANGED << notDispatch, wsub, pendingQueue, processing, currentProcess,
                  currentTaskId, stopped, reconnectDelay, kpc, kreq, retryTimers,
                  conn, yreq, spc, sreq, stopChild, timers, procs, nFail, nDrop,
                  cancelled >>

\* Accept on a task in review
HumanAccept(id) ==
  /\ getTask(queue, id).status = "review"
  /\ Serve(HandlePut(queue, taskActivity, id, [status |-> "done"]))
  /\ UNCHANGED << notDispatch, nextId, clock, wsub, pendingQueue, processing,
                  currentProcess, currentTaskId, stopped, reconnectDelay, kpc,
                  kreq, retryTimers, conn, yreq, spc, sreq, stopChild, timers,
                  procs, nFail, nDrop, cancelled >>

\* Dismiss on a pending task
HumanDismiss(id) ==
  /\ getTask(queue, id).status = "pending"
  /\ Serve(HandlePut(queue, taskActivity, id, [status |-> "done"]))
  /\ UNCHANGED << notDispatch, nextId, clock, wsub, pendingQueue, processing,
                  currentProcess, currentTaskId, stopped, reconnectDelay, kpc,
                  kreq, retryTimers, conn, yreq, spc, sreq, stopChild, timers,
                  procs, nFail, nDrop, cancelled >>

\* Retry on a task in review: the attempt is archived and the task is pending again
HumanRetry(id) ==
  /\ getTask(queue, id).status = "review"
  /\ Serve(HandlePut(queue, taskActivity, id,
                     [status |-> "pending", attempts |-> getTask(queue, id).attempts + 1]))
  /\ UNCHANGED << notDispatch, nextId, clock, wsub, pendingQueue, processing,
                  currentProcess, currentTaskId, stopped, reconnectDelay, kpc,
                  kreq, retryTimers, conn, yreq, spc, sreq, stopChild, timers,
                  procs, nFail, nDrop, cancelled >>

\* Cancel on a task in progress
HumanCancel(id) ==
  /\ getTask(queue, id).status = "in_progress"
  /\ Serve(HandleCancel(queue, taskActivity, id))
  /\ cancelled' = IF id = currentTaskId THEN cancelled \cup {id} ELSE cancelled
  /\ UNCHANGED << notDispatch, nextId, clock, wsub, pendingQueue, processing,
                  currentProcess, currentTaskId, stopped, reconnectDelay, kpc,
                  kreq, retryTimers, conn, yreq, spc, sreq, stopChild, timers,
                  procs, nFail, nDrop >>

\* Delete, once the undo toast has gone
HumanDelete(id) ==
  /\ getTask(queue, id) # NoTask
  /\ Serve(HandleDelete(queue, taskActivity, id))
  /\ UNCHANGED << notDispatch, nextId, clock, wsub, pendingQueue, processing,
                  currentProcess, currentTaskId, stopped, reconnectDelay, kpc,
                  kreq, retryTimers, conn, yreq, spc, sreq, stopChild, timers,
                  procs, nFail, nDrop, cancelled >>

(*------------------------- the agent subprocess --------------------------*)
\* the agent reports its change: PUT status review, once in a run
AgentReview(c) ==
  /\ Running(c)
  /\ procs[c].sig = "none"
  /\ ~procs[c].reported
  /\ procs' = [procs EXCEPT ![c].reported = TRUE]
  /\ Serve(HandlePut(queue, taskActivity, procs[c].task, [status |-> "review"]))
  /\ UNCHANGED << notDispatch, nextId, clock, wsub, pendingQueue, processing,
                  currentProcess, currentTaskId, stopped, reconnectDelay, kpc,
                  kreq, retryTimers, conn, yreq, spc, sreq, stopChild, timers,
                  nFail, nDrop, cancelled >>

\* a close handler without clearTimeout
ChildExitKeepsTimer(c) ==
  /\ Running(c)
  /\ procs' = [procs EXCEPT ![c] = Closed(procs[c].task, procs[c].reported)]
  /\ currentProcess' = IF WatcherRuns THEN 0 ELSE currentProcess
  /\ IF WatcherRuns /\ kpc = "run" /\ currentProcess = c
     THEN /\ kpc' = "recon_get"
          /\ kreq' = Sent(kreq.id)
     ELSE UNCHANGED << kpc, kreq >>
  /\ IF spc = "wait_close" /\ stopChild = c
     THEN /\ timers' = timers \ {Timer("stopKill", c)}
          /\ StopProceed
     ELSE /\ UNCHANGED timers
          /\ UNCHANGED << spc, sreq >>
  /\ UNCHANGED << notDispatch, queue, nextId, clock, taskActivity, wsub, sse,
                  pendingQueue, processing, currentTaskId, stopped, reconnectDelay,
                  retryTimers, conn, yreq, stopChild, nFail, nDrop, cancelled >>

\* the subprocess closes, of itself or by a signal: the close handler of
\* processTask, the rest of processTask up to its next await, and the close
\* listener of stop() when stop() waits for this subprocess.  The SIGKILL timer
\* of the timeout stays set in the code; it is dropped here because it tests
\* currentProcess === child, which cannot hold again once the child has closed.
ChildExit(c) ==
  /\ Running(c)
  /\ procs' = [procs EXCEPT ![c] = Closed(procs[c].task, procs[c].reported)]
  /\ currentProcess' = IF WatcherRuns THEN 0 ELSE currentProcess
  /\ IF WatcherRuns /\ kpc = "run" /\ currentProcess = c
     THEN /\ kpc' = "recon_get"
          /\ kreq' = Sent(kreq.id)
     ELSE UNCHANGED << kpc, kreq >>
  /\ IF spc = "wait_close" /\ stopChild = c
     THEN /\ timers' = timers \ {Timer("timeout", c), Timer("timeoutKill", c),
                                     Timer("stopKill", c)}
          /\ StopProceed
     ELSE /\ timers' = timers \ {Timer("timeout", c), Timer("timeoutKill", c)}
          /\ UNCHANGED << spc, sreq >>
  /\ UNCHANGED << notDispatch, queue, nextId, clock, taskActivity, wsub, sse,
                  pendingQueue, processing, currentTaskId, stopped, reconnectDelay,
                  retryTimers, conn, yreq, stopChild, nFail, nDrop, cancelled >>

(*------------------------- timers of the watcher -------------------------*)
\* the agent timeout: SIGTERM, and a timer for SIGKILL
TimeoutFire(c) ==
  /\ WatcherRuns
  /\ Timer("timeout", c) \in timers
  /\ procs' = Kill(procs, c, "SIGTERM")
  /\ timers' = (timers \ {Timer("timeout", c)}) \cup {Timer("timeoutKill", c)}
  /\ UNCHANGED << notDispatch, queue, nextId, clock, taskActivity, wsub, sse,
                  pendingQueue, processing, currentProcess, currentTaskId, stopped,
                  reconnectDelay, kpc, kreq, retryTimers, conn, yreq, spc, sreq,
                  stopChild, nFail, nDrop, cancelled >>

\* a timeout that stops at SIGTERM
TimeoutKillFireNoKill(c) ==
  /\ WatcherRuns
  /\ Timer("timeoutKill", c) \in timers
  /\ timers' = timers \ {Timer("timeoutKill", c)}
  /\ UNCHANGED procs
  /\ UNCHANGED << notDispatch, queue, nextId, clock, taskActivity, wsub, sse,
                  pendingQueue, processing, currentProcess, currentTaskId, stopped,
                  reconnectDelay, kpc, kreq, retryTimers, conn, yreq, spc, sreq,
                  stopChild, nFail, nDrop, cancelled >>

\* 5 s after the timeout: SIGKILL if currentProcess === child
TimeoutKillFire(c) ==
  /\ WatcherRuns
  /\ Timer("timeoutKill", c) \in timers
  /\ timers' = timers \ {Timer("timeoutKill", c)}
  /\ procs' = IF currentProcess = c THEN Kill(procs, c, "SIGKILL") ELSE procs
  /\ UNCHANGED << notDispatch, queue, nextId, clock, taskActivity, wsub, sse,
                  pendingQueue, processing, currentProcess, currentTaskId, stopped,
                  reconnectDelay, kpc, kreq, retryTimers, conn, yreq, spc, sreq,
                  stopChild, nFail, nDrop, cancelled >>

\* 5 s after a cancel: SIGKILL to whatever currentProcess is then
CancelKillFire(c) ==
  /\ WatcherRuns
  /\ Timer("cancelKill", c) \in timers
  /\ timers' = timers \ {Timer("cancelKill", c)}
  /\ procs' = IF currentProcess # 0 THEN Kill(procs, currentProcess, "SIGKILL") ELSE procs
  /\ UNCHANGED << notDispatch, queue, nextId, clock, taskActivity, wsub, sse,
                  pendingQueue, processing, currentProcess, currentTaskId, stopped,
                  reconnectDelay, kpc, kreq, retryTimers, conn, yreq, spc, sreq,
                  stopChild, nFail, nDrop, cancelled >>

\* 5 s into stop(): SIGKILL to whatever currentProcess is then, and stop() goes on
StopKillFire(c) ==
  /\ WatcherRuns
  /\ spc = "wait_close"
  /\ Timer("stopKill", c) \in timers
  /\ timers' = timers \ {Timer("stopKill", c)}
  /\ procs' = IF currentProcess # 0 THEN Kill(procs, currentProcess, "SIGKILL") ELSE procs
  /\ StopProceed
  /\ UNCHANGED << notDispatch, queue, nextId, clock, taskActivity, wsub, sse,
                  pendingQueue, processing, currentProcess, currentTaskId, stopped,
                  reconnectDelay, kpc, kreq, retryTimers, conn, yreq, stopChild,
                  nFail, nDrop, cancelled >>

\* 5 s after kickProcessing failed to fetch the next task
RetryTimerFire ==
  /\ WatcherRuns
  /\ retryTimers > 0
  /\ retryTimers' = retryTimers - 1
  /\ Kick(pendingQueue)
  /\ UNCHANGED << notDispatch, queue, nextId, clock, taskActivity, wsub, sse,
                  pendingQueue, currentProcess, currentTaskId, stopped,
                  reconnectDelay, conn, yreq, spc, sreq, stopChild, timers, procs,
                  nFail, nDrop, cancelled >>

(*------------------------- the event connection --------------------------*)
\* the watcher reads one event and runs its handler
SseDeliver ==
  /\ WatcherRuns
  /\ conn = "open"
  /\ sse # << >>
  /\ sse' = Tail(sse)
  /\ LET e == Head(sse)
     IN CASE e.type = "task_created" \/ (e.type = "task_updated" /\ e.status = "pending") ->
               /\ Enqueue(<< e.id >>)
               /\ UNCHANGED << procs, timers >>
          [] e.type = "task_deleted" ->
               /\ pendingQueue' = Without(pendingQueue, e.id)
               /\ UNCHANGED << processing, kpc, kreq, procs, timers >>
          [] e.type = "task_cancel" /\ e.id = currentTaskId /\ currentProcess # 0 ->
               /\ procs' = Kill(procs, currentProcess, "SIGTERM")
               /\ timers' = timers \cup {Timer("cancelKill", currentProcess)}
               /\ UNCHANGED << pendingQueue, processing, kpc, kreq >>
          [] OTHER ->
               UNCHANGED << pendingQueue, processing, kpc, kreq, procs, timers >>
  /\ UNCHANGED << notDispatch, queue, nextId, clock, taskActivity, wsub, currentProcess,
                  currentTaskId, stopped, reconnectDelay, retryTimers, conn, yreq,
                  spc, sreq, stopChild, nFail, nDrop, cancelled >>

\* the server accepts the event stream request
ConnectOk ==
  /\ WatcherRuns
  /\ conn = "connecting"
  /\ conn' = "open"
  /\ wsub' = TRUE
  /\ reconnectDelay' = 1000
  /\ UNCHANGED << notDispatch, queue, nextId, clock, taskActivity, sse, pendingQueue,
                  processing, currentProcess, currentTaskId, stopped, kpc, kreq,
                  retryTimers, yreq, spc, sreq, stopChild, timers, procs, nFail,
                  nDrop, cancelled >>

\* the connection breaks or is refused: what was written to it and not read is
\* lost, and the reconnect timer is set
Disconnected ==
  /\ WatcherRuns
  /\ conn \in {"connecting", "open"}
  /\ nDrop' = nDrop + 1
  /\ conn' = "down"
  /\ wsub' = FALSE
  /\ sse' = << >>
  /\ UNCHANGED << notDispatch, queue, nextId, clock, taskActivity, pendingQueue,
                  processing, currentProcess, currentTaskId, stopped,
                  reconnectDelay, kpc, kreq, retryTimers, yreq, spc, sreq,
                  stopChild, timers, procs, nFail, cancelled >>

\* a break or a refusal among the faults of Spec
SseDrop ==
  /\ nDrop < MaxDrop
  /\ nFail + nDrop < MaxFaults
  /\ Disconnected

\* a break or a refusal in SpecReconnect
SseDropAgain ==
  /\ nDrop < MaxDisconnects
  /\ Disconnected

\* a reconnect timer that doubles without a ceiling
ReconnectTimerFireUncapped ==
  /\ WatcherRuns
  /\ conn = "down"
  /\ reconnectDelay' = reconnectDelay * 2
  /\ conn' = "syncing"
  /\ yreq' = [stage |-> "sent", pending |-> << >>]
  /\ UNCHANGED << notDispatch, queue, nextId, clock, taskActivity, wsub, sse,
                  pendingQueue, processing, currentProcess, currentTaskId, stopped,
                  kpc, kreq, retryTimers, spc, sreq, stopChild, timers, procs,
                  nFail, nDrop, cancelled >>

\* the reconnect timer: the delay doubles and syncAndReconnect asks for all tasks
ReconnectTimerFire ==
  /\ WatcherRuns
  /\ conn = "down"
  /\ reconnectDelay' = IF reconnectDelay * 2 < 30000 THEN reconnectDelay * 2 ELSE 30000
  /\ conn' = "syncing"
  /\ yreq' = [stage |-> "sent", pending |-> << >>]
  /\ UNCHANGED << notDispatch, queue, nextId, clock, taskActivity, wsub, sse,
                  pendingQueue, processing, currentProcess, currentTaskId, stopped,
                  kpc, kreq, retryTimers, spc, sreq, stopChild, timers, procs,
                  nFail, nDrop, cancelled >>

\* the server answers GET /api/tasks
SyncServe ==
  /\ yreq.stage = "sent"
  /\ yreq' = [stage |-> "done", pending |-> PendingIds(queue)]
  /\ UNCHANGED << notDispatch, queue, nextId, clock, taskActivity, wsub, sse,
                  pendingQueue, processing, currentProcess, currentTaskId, stopped,
                  reconnectDelay, kpc, kreq, retryTimers, conn, spc, sreq,
                  stopChild, timers, procs, nFail, nDrop, cancelled >>

\* a syncAndReconnect that only reconnects
SyncRespNoEnqueue ==
  /\ WatcherRuns
  /\ yreq.stage = "done"
  /\ yreq' = NoSync
  /\ UNCHANGED << pendingQueue, processing, kpc, kreq >>
  /\ Connect
  /\ UNCHANGED << notDispatch, queue, nextId, clock, taskActivity, wsub, sse,
                  currentProcess, currentTaskId, stopped, reconnectDelay,
                  retryTimers, spc, sreq, stopChild, timers, procs, nFail, nDrop,
                  cancelled >>

\* syncAndReconnect goes on: every pending task is enqueued, then connect()
SyncResp ==
  /\ WatcherRuns
  /\ yreq.stage = "done"
  /\ yreq' = NoSync
  /\ Enqueue(yreq.pending)
  /\ Connect
  /\ UNCHANGED << notDispatch, queue, nextId, clock, taskActivity, wsub, sse,
                  currentProcess, currentTaskId, stopped, reconnectDelay,
                  retryTimers, spc, sreq, stopChild, timers, procs, nFail, nDrop,
                  cancelled >>

\* GET /api/tasks fails: connect() all the same.  The failure comes with the
\* break that led to the resync and is not counted against MaxFaults.
SyncFail ==
  /\ WatcherRuns
  /\ yreq.stage # "none"
  /\ nFail < MaxFail
  /\ nFail' = nFail + 1
  /\ yreq' = NoSync
  /\ Connect
  /\ UNCHANGED << notDispatch, queue, nextId, clock, taskActivity, wsub, sse,
                  pendingQueue, processing, currentProcess, currentTaskId, stopped,
                  reconnectDelay, kpc, kreq, retryTimers, spc, sreq, stopChild,
                  timers, procs, nDrop, cancelled >>

(*------------------------- kickProcessing and processTask ----------------*)
\* the server answers GET /api/tasks/next
KpNextServe ==
  /\ kpc = "next"
  /\ kreq.stage = "sent"
  /\ kreq' = Answered(0, HandleNext(queue, taskActivity).task)
  /\ UNCHANGED << notDispatch, queue, nextId, clock, taskActivity, wsub, sse,
                  pendingQueue, processing, currentProcess, currentTaskId, stopped,
                  reconnectDelay, kpc, retryTimers, conn, yreq, spc, sreq,
                  stopChild, timers, procs, nFail, nDrop, cancelled >>

\* a kickProcessing that takes the first id of its own list when the server
\* has a pending task
KpNextRespFromHint ==
  /\ WatcherRuns
  /\ kpc = "next"
  /\ kreq.stage = "done"
  /\ IF kreq.task = NoTask \/ pendingQueue = << >>
     THEN /\ pendingQueue' = << >>
          /\ FinishOnly
          /\ UNCHANGED currentTaskId
     ELSE /\ pendingQueue' = Tail(pendingQueue)
          /\ currentTaskId' = Head(pendingQueue)
          /\ kpc' = "claim"
          /\ kreq' = Sent(Head(pendingQueue))
          /\ UNCHANGED processing
  /\ UNCHANGED << notDispatch, queue, nextId, clock, taskActivity, wsub, sse,
                  currentProcess, stopped, reconnectDelay, retryTimers, conn, yreq,
                  spc, sreq, stopChild, timers, procs, nFail, nDrop, cancelled >>

\* a kickProcessing that goes on to the next cycle after a task at its retry limit
KpNextRespRekicks ==
  /\ WatcherRuns
  /\ kpc = "next"
  /\ kreq.stage = "done"
  /\ IF kreq.task = NoTask
     THEN /\ pendingQueue' = << >>
          /\ FinishOnly
          /\ UNCHANGED currentTaskId
     ELSE IF ReachedMaxRetries(kreq.task)
     THEN /\ pendingQueue' = Without(pendingQueue, kreq.task.id)
          /\ FinishAndRekick(Without(pendingQueue, kreq.task.id))
          /\ UNCHANGED currentTaskId
     ELSE /\ pendingQueue' = Without(pendingQueue, kreq.task.id)
          /\ currentTaskId' = kreq.task.id
          /\ kpc' = "claim"
          /\ kreq' = Sent(kreq.task.id)
          /\ UNCHANGED processing
  /\ UNCHANGED << notDispatch, queue, nextId, clock, taskActivity, wsub, sse,
                  currentProcess, stopped, reconnectDelay, retryTimers, conn, yreq,
                  spc, sreq, stopChild, timers, procs, nFail, nDrop, cancelled >>

\* kickProcessing goes on with the answer: no task, a task at its retry limit,
\* or a task to process, which processTask starts to claim
KpNextResp ==
  /\ WatcherRuns
  /\ kpc = "next"
  /\ kreq.stage = "done"
  /\ IF kreq.task = NoTask
     THEN /\ pendingQueue' = << >>
          /\ FinishOnly
          /\ UNCHANGED currentTaskId
     ELSE IF ReachedMaxRetries(kreq.task)
     THEN /\ pendingQueue' = Without(pendingQueue, kreq.task.id)
          /\ FinishOnly
          /\ UNCHANGED currentTaskId
     ELSE /\ pendingQueue' = Without(pendingQueue, kreq.task.id)
          /\ currentTaskId' = kreq.task.id
          /\ kpc' = "claim"
          /\ kreq' = Sent(kreq.task.id)
          /\ UNCHANGED processing
  /\ UNCHANGED << notDispatch, queue, nextId, clock, taskActivity, wsub, sse,
                  currentProcess, stopped, reconnectDelay, retryTimers, conn, yreq,
                  spc, sreq, stopChild, timers, procs, nFail, nDrop, cancelled >>

\* a catch that sets no retry timer
KpNextFailNoRetry ==
  /\ WatcherRuns
  /\ kpc = "next"
  /\ kreq.stage # "none"
  /\ nFail < MaxFail
  /\ nFail + nDrop < MaxFaults
  /\ nFail' = nFail + 1
  /\ retryTimers' = retryTimers
  /\ FinishOnly
  /\ UNCHANGED << notDispatch, queue, nextId, clock, taskActivity, wsub, sse,
                  pendingQueue, currentProcess, currentTaskId, stopped,
                  reconnectDelay, conn, yreq, spc, sreq, stopChild, timers, procs,
                  nDrop, cancelled >>

\* GET /api/tasks/next fails: the catch sets the retry timer
KpNextFail ==
  /\ WatcherRuns
  /\ kpc = "next"
  /\ kreq.stage # "none"
  /\ nFail < MaxFail
  /\ nFail + nDrop < MaxFaults
  /\ nFail' = nFail + 1
  /\ retryTimers' = retryTimers + 1
  /\ FinishOnly
  /\ UNCHANGED << notDispatch, queue, nextId, clock, taskActivity, wsub, sse,
                  pendingQueue, currentProcess, currentTaskId, stopped,
                  reconnectDelay, conn, yreq, spc, sreq, stopChild, timers, procs,
                  nDrop, cancelled >>

\* the server handles the claim, PUT status in_progress
KpClaimServe ==
  /\ kpc = "claim"
  /\ kreq.stage = "sent"
  /\ Serve(HandlePut(queue, taskActivity, kreq.id, [status |-> "in_progress"]))
  /\ kreq' = Answered(kreq.id,
                      HandlePut(queue, taskActivity, kreq.id, [status |-> "in_progress"]).task)
  /\ UNCHANGED << notDispatch, nextId, clock, wsub, pendingQueue, processing,
                  currentProcess, currentTaskId, stopped, reconnectDelay, kpc,
                  retryTimers, conn, yreq, spc, sreq, stopChild, timers, procs,
                  nFail, nDrop, cancelled >>

\* processTask goes on after the claim, whatever the answer: the agent is
\* spawned and the timeout timer set
KpClaimResp ==
  /\ WatcherRuns
  /\ kpc = "claim"
  /\ kreq.stage = "done"
  /\ Len(procs) < MaxSpawns
  /\ procs' = Append(procs, [task |-> kreq.id, state |-> "running", sig |-> "none",
                             reported |-> FALSE])
  /\ currentProcess' = Len(procs) + 1
  /\ timers' = IF agentTimeout > 0 THEN timers \cup {Timer("timeout", Len(procs) + 1)}
                                    ELSE timers
  /\ kpc' = "run"
  /\ kreq' = [NoReq EXCEPT !.id = kreq.id]
  /\ UNCHANGED << notDispatch, queue, nextId, clock, taskActivity, wsub, sse,
                  pendingQueue, processing, currentTaskId, stopped, reconnectDelay,
                  retryTimers, conn, yreq, spc, sreq, stopChild, nFail, nDrop,
                  cancelled >>

\* a spawn failure that leaves kickProcessing through its catch: the task is
\* left as it is
KpSpawnFailThrows ==
  /\ WatcherRuns
  /\ kpc = "claim"
  /\ kreq.stage = "done"
  /\ nFail < MaxFail
  /\ nFail + nDrop < MaxFaults
  /\ nFail' = nFail + 1
  /\ retryTimers' = retryTimers + 1
  /\ FinishOnly
  /\ UNCHANGED << notDispatch, queue, nextId, clock, taskActivity, wsub, sse,
                  pendingQueue, currentProcess, currentTaskId, stopped,
                  reconnectDelay, conn, yreq, spc, sreq, stopChild, timers, procs,
                  nDrop, cancelled >>

\* spawn fails (claude not found): 'error' then 'close' with no subprocess;
\* processTask goes on to the status check
KpSpawnFail ==
  /\ WatcherRuns
  /\ kpc = "claim"
  /\ kreq.stage = "done"
  /\ nFail < MaxFail
  /\ nFail + nDrop < MaxFaults
  /\ nFail' = nFail + 1
  /\ kpc' = "recon_get"
  /\ kreq' = Sent(kreq.id)
  /\ UNCHANGED << notDispatch, queue, nextId, clock, taskActivity, wsub, sse,
                  pendingQueue, processing, currentProcess, currentTaskId, stopped,
                  reconnectDelay, retryTimers, conn, yreq, spc, sreq, stopChild,
                  timers, procs, nDrop, cancelled >>

\* the claim request fails: processTask gives the task up and returns
KpClaimFail ==
  /\ WatcherRuns
  /\ kpc = "claim"
  /\ kreq.stage # "none"
  /\ nFail < MaxFail
  /\ nFail + nDrop < MaxFaults
  /\ nFail' = nFail + 1
  /\ currentTaskId' = 0
  /\ FinishAndRekick(pendingQueue)
  /\ UNCHANGED << notDispatch, queue, nextId, clock, taskActivity, wsub, sse,
                  pendingQueue, currentProcess, stopped, reconnectDelay,
                  retryTimers, conn, yreq, spc, sreq, stopChild, timers, procs,
                  nDrop, cancelled >>

\* the server answers the status check after the agent's exit
KpReconGetServe ==
  /\ kpc = "recon_get"
  /\ kreq.stage = "sent"
  /\ kreq' = Answered(kreq.id, HandleGetTask(queue, taskActivity, kreq.id).task)
  /\ UNCHANGED << notDispatch, queue, nextId, clock, taskActivity, wsub, sse,
                  pendingQueue, processing, currentProcess, currentTaskId, stopped,
                  reconnectDelay, kpc, retryTimers, conn, yreq, spc, sreq,
                  stopChild, timers, procs, nFail, nDrop, cancelled >>

\* processTask goes on: in_progress is reset to pending, anything else is logged
KpReconGetResp ==
  /\ WatcherRuns
  /\ kpc = "recon_get"
  /\ kreq.stage = "done"
  /\ IF NeedsReset(kreq.task)
     THEN /\ kpc' = "recon_put"
          /\ kreq' = Sent(kreq.id)
          /\ UNCHANGED << processing, currentTaskId >>
     ELSE /\ currentTaskId' = 0
          /\ FinishAndRekick(pendingQueue)
  /\ UNCHANGED << notDispatch, queue, nextId, clock, taskActivity, wsub, sse,
                  pendingQueue, currentProcess, stopped, reconnectDelay,
                  retryTimers, conn, yreq, spc, sreq, stopChild, timers, procs,
                  nFail, nDrop, cancelled >>

\* the server handles the reset, PUT status pending
KpReconPutServe ==
  /\ kpc = "recon_put"
  /\ kreq.stage = "sent"
  /\ Serve(HandlePut(queue, taskActivity, kreq.id, [status |-> "pending"]))
  /\ kreq' = Answered(kreq.id, NoTask)
  /\ UNCHANGED << notDispatch, nextId, clock, wsub, pendingQueue, processing,
                  currentProcess, currentTaskId, stopped, reconnectDelay, kpc,
                  retryTimers, conn, yreq, spc, sreq, stopChild, timers, procs,
                  nFail, nDrop, cancelled >>

\* processTask returns after the reset
KpReconPutResp ==
  /\ WatcherRuns
  /\ kpc = "recon_put"
  /\ kreq.stage = "done"
  /\ currentTaskId' = 0
  /\ FinishAndRekick(pendingQueue)
  /\ UNCHANGED << notDispatch, queue, nextId, clock, taskActivity, wsub, sse,
                  pendingQueue, currentProcess, stopped, reconnectDelay,
                  retryTimers, conn, yreq, spc, sreq, stopChild, timers, procs,
                  nFail, nDrop, cancelled >>

\* the status check or the reset fails: "Could not verify task status"
KpReconFail ==
  /\ WatcherRuns
  /\ kpc \in {"recon_get", "recon_put"}
  /\ kreq.stage # "none"
  /\ nFail < MaxFail
  /\ nFail + nDrop < MaxFaults
  /\ nFail' = nFail + 1
  /\ currentTaskId' = 0
  /\ FinishAndRekick(pendingQueue)
  /\ UNCHANGED << notDispatch, queue, nextId, clock, taskActivity, wsub, sse,
                  pendingQueue, currentProcess, stopped, reconnectDelay,
                  retryTimers, conn, yreq, spc, sreq, stopChild, timers, procs,
                  nDrop, cancelled >>

(*------------------------- stop() ----------------------------------------*)
\* stop() up to its first await
Stop ==
  /\ spc = "none"
  /\ stopped' = TRUE
  /\ conn' = IF conn = "syncing" THEN "syncing" ELSE "closed"
  /\ wsub' = FALSE
  /\ sse' = << >>
  /\ IF currentProcess # 0
     THEN /\ procs' = Kill(procs, currentProcess, "SIGTERM")
          /\ timers' = timers \cup {Timer("stopKill", currentProcess)}
          /\ stopChild' = currentProcess
          /\ spc' = "wait_close"
          /\ sreq' = NoReq
     ELSE /\ StopProceed
          /\ UNCHANGED << procs, timers, stopChild >>
  /\ UNCHANGED << notDispatch, queue, nextId, clock, taskActivity, pendingQueue,
                  processing, currentProcess, currentTaskId, reconnectDelay, kpc,
                  kreq, retryTimers, yreq, nFail, nDrop, cancelled >>

\* the server answers stop()'s GET of the current task
StopGetServe ==
  /\ spc = "get"
  /\ sreq.stage = "sent"
  /\ sreq' = Answered(sreq.id, HandleGetTask(queue, taskActivity, sreq.id).task)
  /\ UNCHANGED << notDispatch, queue, nextId, clock, taskActivity, wsub, sse,
                  pendingQueue, processing, currentProcess, currentTaskId, stopped,
                  reconnectDelay, kpc, kreq, retryTimers, conn, yreq, spc,
                  stopChild, timers, procs, nFail, nDrop, cancelled >>

\* stop() goes on: a task in progress is reset, under the id currentTaskId holds now
StopGetResp ==
  /\ spc = "get"
  /\ sreq.stage = "done"
  /\ IF sreq.task.status = "in_progress"
     THEN /\ spc' = "put"
          /\ sreq' = Sent(currentTaskId)
     ELSE /\ spc' = "done"
          /\ sreq' = NoReq
  /\ UNCHANGED << notDispatch, queue, nextId, clock, taskActivity, wsub, sse,
                  pendingQueue, processing, currentProcess, currentTaskId, stopped,
                  reconnectDelay, kpc, kreq, retryTimers, conn, yreq, stopChild,
                  timers, procs, nFail, nDrop, cancelled >>

\* a reset by stop() that archives an attempt
StopPutServeArchives ==
  /\ spc = "put"
  /\ sreq.stage = "sent"
  /\ Serve(HandlePut(queue, taskActivity, sreq.id,
                     [status |-> "pending",
                      attempts |-> getTask(queue, sreq.id).attempts + 1]))
  /\ sreq' = Answered(sreq.id, NoTask)
  /\ UNCHANGED << notDispatch, nextId, clock, wsub, pendingQueue, processing,
                  currentProcess, currentTaskId, stopped, reconnectDelay, kpc,
                  kreq, retryTimers, conn, yreq, spc, stopChild, timers, procs,
                  nFail, nDrop, cancelled >>

\* the server handles stop()'s reset
StopPutServe ==
  /\ spc = "put"
  /\ sreq.stage = "sent"
  /\ Serve(HandlePut(queue, taskActivity, sreq.id, [status |-> "pending"]))
  /\ sreq' = Answered(sreq.id, NoTask)
  /\ UNCHANGED << notDispatch, nextId, clock, wsub, pendingQueue, processing,
                  currentProcess, currentTaskId, stopped, reconnectDelay, kpc,
                  kreq, retryTimers, conn, yreq, spc, stopChild, timers, procs,
                  nFail, nDrop, cancelled >>

\* stop() returns after its reset
StopPutResp ==
  /\ spc = "put"
  /\ sreq.stage = "done"
  /\ spc' = "done"
  /\ sreq' = NoReq
  /\ UNCHANGED << notDispatch, queue, nextId, clock, taskActivity, wsub, sse,
                  pendingQueue, processing, currentProcess, currentTaskId, stopped,
                  reconnectDelay, kpc, kreq, retryTimers, conn, yreq, stopChild,
                  timers, procs, nFail, nDrop, cancelled >>

\* a request of stop() fails: best effort
StopFail ==
  /\ spc \in {"get", "put"}
  /\ sreq.stage # "none"
  /\ nFail < MaxFail
  /\ nFail' = nFail + 1
  /\ spc' = "done"
  /\ sreq' = NoReq
  /\ UNCHANGED << notDispatch, queue, nextId, clock, taskActivity, wsub, sse,
                  pendingQueue, processing, currentProcess, currentTaskId, stopped,
                  reconnectDelay, kpc, kreq, retryTimers, conn, yreq, stopChild,
                  timers, procs, nDrop, cancelled >>

\* the signal handler of the command line goes on after stop(): process.exit(0).
\* What the process held in memory is gone, its timers with it; a request it
\* had sent and the server has not handled yet is still on its way.
ProcessExit ==
  /\ spc = "done"
  /\ spc' = "exited"
  /\ IF kpc \in {"claim", "recon_put"} /\ kreq.stage = "sent"
     THEN UNCHANGED << kpc, kreq >>
     ELSE /\ kpc' = "idle"
          /\ kreq' = NoReq
  /\ pendingQueue' = << >>
  /\ processing' = FALSE
  /\ currentProcess' = 0
  /\ currentTaskId' = 0
  /\ reconnectDelay' = 1000
  /\ retryTimers' = 0
  /\ conn' = "closed"
  /\ yreq' = NoSync
  /\ stopChild' = 0
  /\ timers' = {}
  /\ UNCHANGED << notDispatch, queue, nextId, clock, taskActivity, wsub, sse, stopped,
                  sreq, procs, nFail, nDrop, cancelled >>

\* what people and the agent do, and the watcher's steps that no fault causes
NextRun ==
  \/ \E priority \in CreatePriorities : HumanCreate(priority)
  \/ \E id \in TaskIds : HumanAccept(id)
  \/ \E id \in TaskIds : HumanDismiss(id)
  \/ \E id \in TaskIds : HumanRetry(id)
  \/ \E id \in TaskIds : HumanCancel(id)
  \/ \E id \in TaskIds : HumanDelete(id)
  \/ \E c \in 1..MaxSpawns : AgentReview(c)
  \/ \E c \in 1..MaxSpawns : ChildExit(c)
  \/ \E c \in 1..MaxSpawns : TimeoutFire(c)
  \/ \E c \in 1..MaxSpawns : TimeoutKillFire(c)
  \/ \E c \in 1..MaxSpawns : CancelKillFire(c)
  \/ SseDeliver
  \/ ConnectOk
  \/ KpNextServe
  \/ KpNextResp
  \/ KpClaimServe
  \/ KpClaimResp
  \/ KpReconGetServe
  \/ KpReconGetResp
  \/ KpReconPutServe
  \/ KpReconPutResp

\* the faults: requests and spawns that fail, the event connection that breaks,
\* and what the watcher does about them
NextFault ==
  \/ RetryTimerFire
  \/ SseDrop
  \/ ReconnectTimerFire
  \/ SyncServe
  \/ SyncResp
  \/ SyncFail
  \/ KpNextFail
  \/ KpSpawnFail
  \/ KpClaimFail
  \/ KpReconFail

\* the shutdown
NextStop ==
  \/ \E c \in 1..MaxSpawns : StopKillFire(c)
  \/ Stop
  \/ StopGetServe
  \/ StopGetResp
  \/ StopPutServe
  \/ StopPutResp
  \/ StopFail
  \/ ProcessExit


(***************************************************************************)
(* SpecTask: QueueManager's calls on whole Task records, called directly   *)
(* or by the server's routes.  A mutating call reads the document, then    *)
(* writes it: other calls run between the two awaits.                      *)
(*                                                                         *)
(* A base64 text is the sequence of the 6-bit values of its characters;    *)
(* a file of the screenshots directory is named by task id and kind.       *)
(***************************************************************************)
MaxTasks == 2        \* tasks ever created in SpecTask
MaxClock == 1        \* the last millisecond of SpecTask
MaxInflight == 2     \* requests the server handles at the same time in SpecTask
MaxCalls == 3        \* mutating calls begun in SpecTask

\* Buffer.from(data, "base64"): three bytes for four characters, one or two
\* for a rest of two or three characters
RECURSIVE Decode(_)
Decode(data) ==
  IF Len(data) < 2 THEN << >>
  ELSE LET b1 == data[1] * 4 + data[2] \div 16
           b2 == (data[2] % 16) * 16 + data[3] \div 4
           b3 == (data[3] % 4) * 64 + data[4]
       IN IF Len(data) = 2 THEN << b1 >>
          ELSE IF Len(data) = 3 THEN << b1, b2 >>
          ELSE << b1, b2, b3 >> \o Decode(SubSeq(data, 5, Len(data)))

\* a signature check that looks at three bytes only
isValidPngBase64ThreeBytes(data) ==
  IF Len(data) < 16 THEN FALSE
  ELSE LET buf == Decode(SubSeq(data, 1, 16))
       IN buf[1] = 137 /\ buf[2] = 80 /\ buf[3] = 78

\* isValidPngBase64: PNG magic bytes 89 50 4E 47
isValidPngBase64(data) ==
  IF Len(data) < 16 THEN FALSE
  ELSE LET buf == Decode(SubSeq(data, 1, 16))
       IN buf[1] = 137 /\ buf[2] = 80 /\ buf[3] = 78 /\ buf[4] = 71

Zeros(n) == [i \in 1..n |-> 0]

\* "iVBORw": the six characters that hold the four magic bytes
PngHead == << 34, 21, 1, 14, 17, 48 >>

\* the screenshots clients send: empty, a PNG, a PNG with a rest of two
\* characters, a PNG head one character short of sixteen, and a text of
\* sixteen characters whose fourth byte is not 47
Screenshots ==
  { << >>,
    PngHead \o Zeros(10),
    PngHead \o Zeros(10) \o << 63, 48 >>,
    PngHead \o Zeros(9),
    << 34, 21, 1, 14, 17, 32 >> \o Zeros(10) }

File(id, kind) == [id |-> id, kind |-> kind]

NoShot == File(0, "none")

\* a Task literal whose updatedAt is not the creation time
NewTaskUnstamped(id, now, input) ==
  [id |-> id, createdAt |-> now, updatedAt |-> 0, note |-> input.note,
   priority |-> input.priority, status |-> "pending",
   screenshotPath |-> File(id, "png"), agentNotes |-> "",
   afterScreenshot |-> NoShot, attempts |-> 0]

\* the Task literal of addTask
NewTask(id, now, input) ==
  [id |-> id, createdAt |-> now, updatedAt |-> now, note |-> input.note,
   priority |-> input.priority, status |-> "pending",
   screenshotPath |-> File(id, "png"), agentNotes |-> "",
   afterScreenshot |-> NoShot, attempts |-> 0]

\* writeFile(path, bytes) in the screenshots directory
WriteShot(dir, file, bytes) ==
  {f \in dir : f.name # file} \cup {[name |-> file, bytes |-> bytes]}

HasShot(dir, file) == \E f \in dir : f.name = file

\* a saveAfterScreenshot that does not look the task up before it writes the file
saveAfterScreenshotUnchecked(items, dir, id, data, now) ==
  LET index == FindIndex(items, id)
      file == File(id, "after")
      written == WriteShot(dir, file, Decode(data))
  IN IF index = 0
     THEN [kind |-> "null", items |-> items, dir |-> written, task |-> NoTask]
     ELSE LET task == [items[index] EXCEPT !.afterScreenshot = file, !.updatedAt = now]
          IN [kind |-> "ok", items |-> [items EXCEPT ![index] = task],
              dir |-> written, task |-> task]

\* saveAfterScreenshot after its signature check, on the document it read
saveAfterScreenshot(items, dir, id, data, now) ==
  LET index == FindIndex(items, id)
      file == File(id, "after")
  IN IF index = 0
     THEN [kind |-> "null", items |-> items, dir |-> dir, task |-> NoTask]
     ELSE LET task == [items[index] EXCEPT !.afterScreenshot = file, !.updatedAt = now]
          IN [kind |-> "ok", items |-> [items EXCEPT ![index] = task],
              dir |-> WriteShot(dir, file, Decode(data)), task |-> task]

\* Object.assign(task, filtered, { updatedAt }): updateTask with its time stamp
Stamped(u, id, now) ==
  IF u.kind # "ok" THEN u
  ELSE LET task == [u.task EXCEPT !.updatedAt = now]
       IN [u EXCEPT !.task = task, !.items[FindIndex(u.items, id)] = task]

NoInput == [note |-> "", priority |-> "medium", screenshot |-> << >>]

NoUpdates == [status |-> "none"]

Req(op, id, input, updates, snap) ==
  [op |-> op, id |-> id, input |-> input, updates |-> updates, snap |-> snap]

NoCall == Req("none", 0, NoInput, NoUpdates, << >>)

\* what a call returned or raised (kind, task), whether it called write(), and
\* what the route around it answers and broadcasts; kind "rejected" is a
\* request the route answered before the call
Return(op, r, kind, code, task, events, wrote) ==
  [op |-> op, id |-> r.id, kind |-> kind, code |-> code, task |-> task,
   events |-> events, wrote |-> wrote]

InitTask ==
  /\ lastUpdated = 0
  /\ shots = {}
  /\ inflight = [s \in 1..MaxInflight |-> NoCall]
  /\ cleanup = {}
  /\ deleted = {}
  /\ nCalls = 0

notTask == << storeVars, dispatchVars, resp, hubVars, panelVars, outputVars, options >>

Adding == {s \in 1..MaxInflight : inflight[s].op = "addTask"}

\* the inputs and payloads of SpecTask
TaskInputs ==
  {[note |-> "fix", priority |-> "medium", screenshot |-> sh] : sh \in Screenshots}
    \cup {[note |-> "", priority |-> "medium", screenshot |-> PngHead \o Zeros(10)]}

TaskUpdates ==
  { [status |-> "review"],
    [status |-> "bogus"],
    [id |-> 9, createdAt |-> 9, updatedAt |-> 9, note |-> "new", colour |-> "red"] }

\* POST /api/tasks or a direct addTask, up to the await of read(): the route
\* answers 400 without a note, addTask raises on a screenshot that fails the check
TAddTaskBegin(s, http, input) ==
  /\ inflight[s].op = "none"
  /\ nCalls < MaxCalls
  /\ nCalls' = nCalls + 1
  /\ nextId + Cardinality(Adding) < MaxTasks
  /\ LET r == Req("addTask", 0, input, NoUpdates, queue)
     IN IF http /\ input.note = ""
        THEN /\ ret' = Return("addTask", r, "rejected", 400, NoTask, << >>, FALSE)
             /\ UNCHANGED inflight
        ELSE IF ~isValidPngBase64(input.screenshot)
        THEN /\ ret' = Return("addTask", r, "throw", 500, NoTask, << >>, FALSE)
             /\ UNCHANGED inflight
        ELSE /\ inflight' = [inflight EXCEPT ![s] = r]
             /\ UNCHANGED ret
  /\ UNCHANGED << queue, nextId, clock, lastUpdated, shots, cleanup, deleted >>
  /\ UNCHANGED notTask

\* addTask goes on: the screenshot file, the task, write()
TAddTaskEnd(s, now, wnow) ==
  /\ inflight[s].op = "addTask"
  /\ clock <= now /\ now <= wnow /\ wnow <= MaxClock
  /\ LET r == inflight[s]
         id == nextId + 1
         task == NewTask(id, now, r.input)
     IN /\ shots' = WriteShot(shots, File(id, "png"), Decode(r.input.screenshot))
        /\ queue' = Append(r.snap, task)
        /\ ret' = Return("addTask", r, "ok", 201, task,
                         << Event("task_created", id, "pending") >>, TRUE)
        /\ nextId' = id
  /\ lastUpdated' = wnow
  /\ clock' = wnow
  /\ inflight' = [inflight EXCEPT ![s] = NoCall]
  /\ UNCHANGED << cleanup, deleted >>
  /\ UNCHANGED << nCalls, notTask >>

\* PUT /api/tasks/:id or a direct updateTask, up to the await of read(): the
\* route answers 400 to an invalid status
TUpdateTaskBegin(s, http, id, updates) ==
  /\ inflight[s].op = "none"
  /\ nCalls < MaxCalls
  /\ nCalls' = nCalls + 1
  /\ LET r == Req("updateTask", id, NoInput, updates, queue)
     IN IF http /\ "status" \in DOMAIN updates /\ updates["status"] \notin VALID_STATUSES
        THEN /\ ret' = Return("updateTask", r, "rejected", 400, NoTask, << >>, FALSE)
             /\ UNCHANGED inflight
        ELSE /\ inflight' = [inflight EXCEPT ![s] = r]
             /\ UNCHANGED ret
  /\ UNCHANGED << queue, nextId, clock, lastUpdated, shots, cleanup, deleted >>
  /\ UNCHANGED notTask

\* updateTask goes on: null, an error, or the merged task and write()
TUpdateTaskEnd(s, now, wnow) ==
  /\ inflight[s].op = "updateTask"
  /\ clock <= now /\ now <= wnow /\ wnow <= MaxClock
  /\ LET r == inflight[s]
         u == Stamped(updateTask(r.snap, r.id, r.updates), r.id, now)
     IN IF u.kind = "null"
        THEN /\ ret' = Return("updateTask", r, "null", 404, NoTask, << >>, FALSE)
             /\ UNCHANGED << queue, lastUpdated, clock >>
        ELSE IF u.kind = "throw"
        THEN /\ ret' = Return("updateTask", r, "throw", 500, NoTask, << >>, FALSE)
             /\ UNCHANGED << queue, lastUpdated, clock >>
        ELSE /\ ret' = Return("updateTask", r, "ok", 200, u.task,
                              << Event("task_updated", r.id, u.task.status) >>, TRUE)
             /\ queue' = u.items
             /\ lastUpdated' = wnow
             /\ clock' = wnow
  /\ inflight' = [inflight EXCEPT ![s] = NoCall]
  /\ UNCHANGED << nextId, shots, cleanup, deleted >>
  /\ UNCHANGED << nCalls, notTask >>

\* deleteTask, called by DELETE /api/tasks/:id or directly, up to the await of read()
TDeleteTaskBegin(s, id) ==
  /\ inflight[s].op = "none"
  /\ nCalls < MaxCalls
  /\ nCalls' = nCalls + 1
  /\ inflight' = [inflight EXCEPT ![s] = Req("deleteTask", id, NoInput, NoUpdates, queue)]
  /\ UNCHANGED << queue, nextId, clock, ret, lastUpdated, shots, cleanup, deleted >>
  /\ UNCHANGED notTask

\* deleteTask goes on: false, or write() and cleanupScreenshots left to run
TDeleteTaskEnd(s, wnow) ==
  /\ inflight[s].op = "deleteTask"
  /\ clock <= wnow /\ wnow <= MaxClock
  /\ LET r == inflight[s]
         d == deleteTask(r.snap, r.id)
     IN IF ~d.found
        THEN /\ ret' = Return("deleteTask", r, "false", 404, NoTask, << >>, FALSE)
             /\ UNCHANGED << queue, lastUpdated, clock, cleanup, deleted >>
        ELSE /\ ret' = Return("deleteTask", r, "true", 200, NoTask,
                              << Event("task_deleted", r.id, "none") >>, TRUE)
             /\ queue' = d.items
             /\ lastUpdated' = wnow
             /\ clock' = wnow
             /\ cleanup' = cleanup \cup {File(r.id, "png"), File(r.id, "after")}
             /\ deleted' = deleted \cup {r.id}
  /\ inflight' = [inflight EXCEPT ![s] = NoCall]
  /\ UNCHANGED << nextId, shots >>
  /\ UNCHANGED << nCalls, notTask >>

\* cleanupScreenshots unlinks <id>.png, then <id>-after.png; a file that is
\* not there makes unlink fail, which is caught
TUnlink(file) ==
  /\ file \in cleanup
  /\ file.kind = "png" \/ File(file.id, "png") \notin cleanup
  /\ cleanup' = cleanup \ {file}
  /\ shots' = {f \in shots : f.name # file}
  /\ UNCHANGED << queue, nextId, clock, ret, lastUpdated, inflight, deleted >>
  /\ UNCHANGED << nCalls, notTask >>

\* unlink fails on a file that is there: caught, the file stays
TUnlinkFail(file) ==
  /\ file \in cleanup
  /\ file.kind = "png" \/ File(file.id, "png") \notin cleanup
  /\ HasShot(shots, file)
  /\ cleanup' = cleanup \ {file}
  /\ UNCHANGED << queue, nextId, clock, ret, lastUpdated, shots, inflight, deleted >>
  /\ UNCHANGED << nCalls, notTask >>

\* POST /api/tasks/:id/after-screenshot or a direct saveAfterScreenshot, up
\* to the await of read(): the route answers 400 to an empty screenshot,
\* saveAfterScreenshot raises on one that fails the check
TSaveAfterBegin(s, http, id, data) ==
  /\ inflight[s].op = "none"
  /\ nCalls < MaxCalls
  /\ nCalls' = nCalls + 1
  /\ LET r == Req("saveAfterScreenshot", id,
                  [NoInput EXCEPT !.screenshot = data], NoUpdates, queue)
     IN IF http /\ data = << >>
        THEN /\ ret' = Return("saveAfterScreenshot", r, "rejected", 400, NoTask, << >>, FALSE)
             /\ UNCHANGED inflight
        ELSE IF ~isValidPngBase64(data)
        THEN /\ ret' = Return("saveAfterScreenshot", r, "throw", 500, NoTask, << >>, FALSE)
             /\ UNCHANGED inflight
        ELSE /\ inflight' = [inflight EXCEPT ![s] = r]
             /\ UNCHANGED ret
  /\ UNCHANGED << queue, nextId, clock, lastUpdated, shots, cleanup, deleted >>
  /\ UNCHANGED notTask

\* saveAfterScreenshot goes on: null, or the file, the task and write()
TSaveAfterEnd(s, now, wnow) ==
  /\ inflight[s].op = "saveAfterScreenshot"
  /\ clock <= now /\ now <= wnow /\ wnow <= MaxClock
  /\ LET r == inflight[s]
         a == saveAfterScreenshot(r.snap, shots, r.id, r.input.screenshot, now)
     IN IF a.kind = "null"
        THEN /\ ret' = Return("saveAfterScreenshot", r, "null", 404, NoTask, << >>, FALSE)
             /\ shots' = a.dir
             /\ UNCHANGED << queue, lastUpdated, clock >>
        ELSE /\ ret' = Return("saveAfterScreenshot", r, "ok", 200, a.task,
                              << Event("task_updated", r.id, a.task.status) >>, TRUE)
             /\ shots' = a.dir
             /\ queue' = a.items
             /\ lastUpdated' = wnow
             /\ clock' = wnow
  /\ inflight' = [inflight EXCEPT ![s] = NoCall]
  /\ UNCHANGED << nextId, cleanup, deleted >>
  /\ UNCHANGED << nCalls, notTask >>

\* getTask, called directly
TGetTask(id) ==
  /\ LET r == Req("getTask", id, NoInput, NoUpdates, queue)
         task == getTask(queue, id)
     IN ret' = Return("getTask", r, IF task = NoTask THEN "null" ELSE "ok",
                      IF task = NoTask THEN 404 ELSE 200, task, << >>, FALSE)
  /\ UNCHANGED << queue, nextId, clock, lastUpdated, shots, inflight, cleanup, deleted >>
  /\ UNCHANGED << nCalls, notTask >>

\* getNextPending, called directly
TGetNextPending ==
  /\ LET r == Req("getNextPending", 0, NoInput, NoUpdates, queue)
         task == getNextPending(queue)
     IN ret' = Return("getNextPending", r, IF task = NoTask THEN "null" ELSE "ok",
                      200, task, << >>, FALSE)
  /\ UNCHANGED << queue, nextId, clock, lastUpdated, shots, inflight, cleanup, deleted >>
  /\ UNCHANGED << nCalls, notTask >>

TaskFiles == {File(id, kind) : id \in 1..MaxTasks, kind \in {"png", "after"}}

NextTask ==
  \/ \E s \in 1..MaxInflight, http \in BOOLEAN, input \in TaskInputs :
       TAddTaskBegin(s, http, input)
  \/ \E s \in 1..MaxInflight, now \in 0..MaxClock, wnow \in 0..MaxClock :
       TAddTaskEnd(s, now, wnow)
  \/ \E s \in 1..MaxInflight, http \in BOOLEAN, id \in 1..MaxTasks, updates \in TaskUpdates :
       TUpdateTaskBegin(s, http, id, updates)
  \/ \E s \in 1..MaxInflight, now \in 0..MaxClock, wnow \in 0..MaxClock :
       TUpdateTaskEnd(s, now, wnow)
  \/ \E s \in 1..MaxInflight, id \in 1..MaxTasks : TDeleteTaskBegin(s, id)
  \/ \E s \in 1..MaxInflight, wnow \in 0..MaxClock : TDeleteTaskEnd(s, wnow)
  \/ \E file \in TaskFiles : TUnlink(file)
  \/ \E file \in TaskFiles : TUnlinkFail(file)
  \/ \E s \in 1..MaxInflight, http \in BOOLEAN, id \in 1..MaxTasks, data \in Screenshots :
       TSaveAfterBegin(s, http, id, data)
  \/ \E s \in 1..MaxInflight, now \in 0..MaxClock, wnow \in 0..MaxClock :
       TSaveAfterEnd(s, now, wnow)
  \/ \E id \in 1..MaxTasks : TGetTask(id)
  \/ TGetNextPending

(***************************************************************************)
(* SpecSse: GET /api/events and broadcast().  A connection is a response   *)
(* object; an event is named by its number in the order of the broadcasts. *)
(***************************************************************************)
MaxConns == 3        \* event connections ever opened in SpecSse
MaxSent == 3         \* broadcasts in SpecSse

\* a broadcast whose loop goes over every response ever added
broadcastToAll(clients, states, log, msg) ==
  [c \in DOMAIN log |-> IF states[c] # "new" THEN Append(log[c], msg) ELSE log[c]]

\* broadcast(): client.write(msg) for each client of sseClients
broadcast(clients, states, log, msg) ==
  [c \in DOMAIN log |-> IF c \in clients THEN Append(log[c], msg) ELSE log[c]]

InitSse ==
  /\ sseClients = {}
  /\ conns = [c \in 1..MaxConns |-> "new"]
  /\ streams = [c \in 1..MaxConns |-> << >>]
  /\ nSent = 0

notSse == << queueVars, storeVars, dispatchVars, resp, taskVars, panelVars, outputVars, options >>

\* GET /api/events: the headers and the keepalive comment, then sseClients.add(res)
EConnect(c) ==
  /\ conns[c] = "new"
  /\ conns' = [conns EXCEPT ![c] = "open"]
  /\ sseClients' = sseClients \cup {c}
  /\ UNCHANGED << streams, nSent, notSse >>

\* the subscriber goes away; the 'close' listener of the request has not run yet
ELose(c) ==
  /\ conns[c] = "open"
  /\ conns' = [conns EXCEPT ![c] = "lost"]
  /\ UNCHANGED << sseClients, streams, nSent, notSse >>

\* req.on("close"): sseClients.delete(res)
EClose(c) ==
  /\ conns[c] = "lost"
  /\ conns' = [conns EXCEPT ![c] = "closed"]
  /\ sseClients' = sseClients \ {c}
  /\ UNCHANGED << streams, nSent, notSse >>

\* a handler calls broadcast(event, data)
EBroadcast ==
  /\ nSent < MaxSent
  /\ nSent' = nSent + 1
  /\ streams' = broadcast(sseClients, conns, streams, nSent + 1)
  /\ UNCHANGED << sseClients, conns, notSse >>

NextSse ==
  \/ \E c \in 1..MaxConns : EConnect(c)
  \/ \E c \in 1..MaxConns : ELose(c)
  \/ \E c \in 1..MaxConns : EClose(c)
  \/ EBroadcast

(***************************************************************************)
(* SpecPanel: the side panels of the extension.  Each keeps its own tasks  *)
(* array, fed by the events of the server, and retries a task from the     *)
(* task object it rendered.  One task, whose attempts are the list the     *)
(* document stores.                                                        *)
(***************************************************************************)
NumPanels == 2       \* side panels open (one per browser window)
MaxRetry == 2        \* retries begun in SpecPanel

Panels == 1..NumPanels

PanelTaskId == 1

AgentNotes == {"moved the button", "moved it back"}

RetryReasons == {"too far left", "still wrong"}

AfterShot == "after.png"

NoRetry == [stage |-> "none"]

\* the task addTask stores: no notes, no files, no after screenshot, no attempts
PanelNewTask ==
  [id |-> PanelTaskId, createdAt |-> 0, priority |-> "medium", status |-> "pending",
   agentNotes |-> "", filesModified |-> << >>, afterScreenshot |-> "null",
   attempts |-> << >>]

\* the Attempt retryTask archives
Attempt(task, retryReason, afterScreenshotPath) ==
  [agentNotes |-> task.agentNotes, filesModified |-> task.filesModified,
   retryReason |-> retryReason, afterScreenshot |-> afterScreenshotPath]

\* the body of retryTask's PUT
RetryPayload(task, retryReason, afterScreenshotPath) ==
  [status |-> "pending",
   attempts |-> Append(task.attempts, Attempt(task, retryReason, afterScreenshotPath)),
   agentNotes |-> "", filesModified |-> << >>, afterScreenshot |-> "null"]

\* broadcast(event, task) to the side panels
PanelBroadcast(event, task) ==
  [p \in Panels |-> Append(panelEvents[p], [event |-> event, task |-> task])]

\* the task_created and task_updated listeners of the side panel
PanelHandle(tasks, ev) ==
  IF ev.event = "task_created" THEN Append(tasks, ev.task)
  ELSE IF FindIndex(tasks, ev.task.id) = 0 THEN tasks
  ELSE [tasks EXCEPT ![FindIndex(tasks, ev.task.id)] = ev.task]

InitPanel ==
  /\ panelTasks = [p \in Panels |-> << >>]
  /\ panelEvents = [p \in Panels |-> << >>]
  /\ panelRetry = [p \in Panels |-> NoRetry]
  /\ nRetry = 0

notPanel ==
  << nextId, clock, ret, storeVars, dispatchVars, resp, taskVars, hubVars, outputVars,
     options >>

\* POST /api/tasks
PnCreate ==
  /\ queue = << >>
  /\ queue' = << PanelNewTask >>
  /\ panelEvents' = PanelBroadcast("task_created", PanelNewTask)
  /\ UNCHANGED << panelTasks, panelRetry, nRetry, notPanel >>

\* PUT /api/tasks/:id
PnPut(updates) ==
  LET u == updateTask(queue, PanelTaskId, updates)
  IN /\ u.kind = "ok"
     /\ queue' = u.items
     /\ panelEvents' = PanelBroadcast("task_updated", u.task)

\* processTask claims the task
PnClaim ==
  /\ getTask(queue, PanelTaskId).status = "pending"
  /\ PnPut([status |-> "in_progress"])
  /\ UNCHANGED << panelTasks, panelRetry, nRetry, notPanel >>

\* the agent reports its work
PnReview(notes) ==
  /\ getTask(queue, PanelTaskId).status = "in_progress"
  /\ PnPut([status |-> "review", agentNotes |-> notes, filesModified |-> << "app.css" >>])
  /\ UNCHANGED << panelTasks, panelRetry, nRetry, notPanel >>

\* a side panel handles the next event of its stream
PnDeliver(p) ==
  /\ panelEvents[p] # << >>
  /\ panelTasks' = [panelTasks EXCEPT ![p] = PanelHandle(@, Head(panelEvents[p]))]
  /\ panelEvents' = [panelEvents EXCEPT ![p] = Tail(@)]
  /\ UNCHANGED << queue, panelRetry, nRetry, notPanel >>

\* Send in the retry form of a task shown in review: retryTask(task, retryReason)
PnRetryClick(p, retryReason) ==
  /\ nRetry < MaxRetry
  /\ panelRetry[p] = NoRetry
  /\ getTask(panelTasks[p], PanelTaskId).status = "review"
  /\ panelRetry' = [panelRetry EXCEPT ![p] =
       [stage |-> "capture", task |-> getTask(panelTasks[p], PanelTaskId),
        retryReason |-> retryReason, afterScreenshotPath |-> "null"]]
  /\ nRetry' = nRetry + 1
  /\ UNCHANGED << queue, panelTasks, panelEvents, notPanel >>

\* CAPTURE_AFTER answers: the after screenshot is stored and its path fetched
PnCaptured(p) ==
  /\ panelRetry[p].stage = "capture"
  /\ LET index == FindIndex(queue, PanelTaskId)
         task == [queue[index] EXCEPT !.afterScreenshot = AfterShot]
     IN /\ index # 0
        /\ queue' = [queue EXCEPT ![index] = task]
        /\ panelEvents' = PanelBroadcast("task_updated", task)
  /\ panelRetry' = [panelRetry EXCEPT ![p].stage = "put",
                                      ![p].afterScreenshotPath = AfterShot]
  /\ UNCHANGED << panelTasks, nRetry, notPanel >>

\* CAPTURE_AFTER fails: retryTask goes on without a screenshot
PnCaptureFail(p) ==
  /\ panelRetry[p].stage = "capture"
  /\ panelRetry' = [panelRetry EXCEPT ![p].stage = "put"]
  /\ UNCHANGED << queue, panelTasks, panelEvents, nRetry, notPanel >>

\* retryTask archives the attempt and sends its PUT
PnRetryPut(p) ==
  /\ panelRetry[p].stage = "put"
  /\ PnPut(RetryPayload(panelRetry[p].task, panelRetry[p].retryReason,
                        panelRetry[p].afterScreenshotPath))
  /\ panelRetry' = [panelRetry EXCEPT ![p] = NoRetry]
  /\ UNCHANGED << panelTasks, nRetry, notPanel >>

NextPanel ==
  \/ PnCreate
  \/ PnClaim
  \/ \E notes \in AgentNotes : PnReview(notes)
  \/ \E p \in Panels : PnDeliver(p)
  \/ \E p \in Panels, retryReason \in RetryReasons : PnRetryClick(p, retryReason)
  \/ \E p \in Panels : PnCaptured(p)
  \/ \E p \in Panels : PnCaptureFail(p)
  \/ \E p \in Panels : PnRetryPut(p)

(***************************************************************************)
(* SpecStdout: the stdout listeners of the agent subprocess.  The stream   *)
(* is a sequence of bytes: "{" and "}" open and close a record, "a" is a   *)
(* letter, "nl" the newline, and "c3" "a9" are the two bytes of one        *)
(* character (e acute) in UTF-8.  The record { text } stands for an        *)
(* assistant event with one text block holding text.                       *)
(***************************************************************************)
MaxBytes == 5        \* bytes the agent writes to stdout in SpecStdout

Bytes == {"{", "}", "a", "nl", "c3", "a9"}

\* the agent writes well-formed UTF-8
ValidUtf8(b) ==
  \A i \in DOMAIN b :
    /\ b[i] = "c3" => (i < Len(b) /\ b[i + 1] = "a9")
    /\ b[i] = "a9" => (i > 1 /\ b[i - 1] = "c3")

Streams == {b \in UNION {[1..n -> Bytes] : n \in 0..MaxBytes} : ValidUtf8(b)}

RECURSIVE ChunkToString(_)
\* chunk.toString(): the bytes of this chunk decoded as UTF-8 on their own; a
\* sequence cut by the end or the start of the chunk decodes to U+FFFD
ChunkToString(b) ==
  IF b = << >> THEN << >>
  ELSE IF b[1] = "c3" /\ Len(b) >= 2 /\ b[2] = "a9"
  THEN << "e_acute" >> \o ChunkToString(SubSeq(b, 3, Len(b)))
  ELSE IF b[1] \in {"c3", "a9"}
  THEN << "U+FFFD" >> \o ChunkToString(Tail(b))
  ELSE << b[1] >> \o ChunkToString(Tail(b))

RECURSIVE Split(_)
\* text.split("\n")
Split(text) ==
  IF text = << >> THEN << << >> >>
  ELSE LET rest == Split(Tail(text))
       IN IF Head(text) = "nl" THEN << << >> >> \o rest
          ELSE << << Head(text) >> \o rest[1] >> \o Tail(rest)

\* JSON.parse(line): the text of the record, or a SyntaxError
JSONparse(line) ==
  IF /\ Len(line) >= 2
     /\ line[1] = "{"
     /\ line[Len(line)] = "}"
     /\ \A i \in 2..(Len(line) - 1) : line[i] \notin {"{", "}"}
  THEN [ok |-> TRUE, text |-> SubSeq(line, 2, Len(line) - 1)]
  ELSE [ok |-> FALSE, text |-> << >>]

\* extractActivities(event) for an assistant event with one text block
extractActivities(event) ==
  IF Len(event.text) = 0 THEN << >>
  ELSE << [type |-> "text",
           summary |-> IF Len(event.text) > 80
                       THEN SubSeq(event.text, 1, 80) \o << ".", ".", "." >>
                       ELSE event.text] >>

\* the body of the loop over the lines, and of the end listener: the activities posted
LineActivities(line) ==
  IF line = << >> THEN << >>
  ELSE IF ~JSONparse(line).ok THEN << >>
  ELSE extractActivities(JSONparse(line))

RECURSIVE AllActivities(_)
AllActivities(lines) ==
  IF lines = << >> THEN << >>
  ELSE LineActivities(Head(lines)) \o AllActivities(Tail(lines))

\* child.stdout.on("data"): the buffer kept and the activities posted
OnData(buffer, chunk) ==
  LET lines == Split(buffer \o ChunkToString(chunk))
  IN [buffer |-> lines[Len(lines)],
      posted |-> AllActivities(SubSeq(lines, 1, Len(lines) - 1))]

\* child.stdout.on("end")
OnEnd(buffer) == LineActivities(buffer)

InitStdout(bytes) ==
  /\ stdoutAll = bytes
  /\ stdoutRest = bytes
  /\ stdoutBuffer = << >>
  /\ stdoutEnded = FALSE
  /\ posted = << >>

notStdout ==
  << queueVars, storeVars, dispatchVars, resp, taskVars, hubVars, panelVars, options >>

\* the next n bytes arrive as one chunk
StdoutData(n) ==
  /\ ~stdoutEnded
  /\ n \in 1..Len(stdoutRest)
  /\ LET d == OnData(stdoutBuffer, SubSeq(stdoutRest, 1, n))
     IN /\ stdoutBuffer' = d.buffer
        /\ posted' = posted \o d.posted
  /\ stdoutRest' = SubSeq(stdoutRest, n + 1, Len(stdoutRest))
  /\ UNCHANGED << stdoutAll, stdoutEnded, notStdout >>

\* the stream ends
StdoutEnd ==
  /\ ~stdoutEnded
  /\ stdoutRest = << >>
  /\ posted' = posted \o OnEnd(stdoutBuffer)
  /\ stdoutEnded' = TRUE
  /\ UNCHANGED << stdoutAll, stdoutRest, stdoutBuffer, notStdout >>

NextStdout ==
  \/ \E n \in 1..MaxBytes : StdoutData(n)
  \/ StdoutEnd

(***************************************************************************)
(* The specifications.                                                     *)
(***************************************************************************)
InitAll ==
  InitQueue /\ InitStore /\ InitDispatch /\ InitTask /\ InitSse /\ InitPanel /\ resp = NoResp

\* the watcher started with the default agent timeout
Init == InitAll /\ agentTimeout = DEFAULT_AGENT_TIMEOUT /\ InitStdout(<< >>)

\* the watcher started with the default agent timeout or with none
InitTimeouts ==
  InitAll /\ agentTimeout \in {0, DEFAULT_AGENT_TIMEOUT} /\ InitStdout(<< >>)

\* the agent writes any stream of at most MaxBytes bytes
InitStreams ==
  InitAll /\ agentTimeout = DEFAULT_AGENT_TIMEOUT /\ \E bytes \in Streams : InitStdout(bytes)

SpecSse == Init /\ [][NextSse]_vars

\* the watcher started on a store that holds one pending task: init() has pushed
\* its id, called connect() and started kickProcessing
InitSeeded ==
  /\ InitStore /\ InitTask /\ InitSse /\ InitPanel /\ InitStdout(<< >>)
  /\ resp = NoResp
  /\ agentTimeout = DEFAULT_AGENT_TIMEOUT
  /\ queue = addTask(<< >>, 1, 1, "medium")
  /\ nextId = 1
  /\ clock = 1
  /\ ret = NoReturn
  /\ taskActivity = [i \in TaskIds |-> 0]
  /\ wsub = FALSE
  /\ sse = << >>
  /\ pendingQueue = << 1 >>
  /\ processing = TRUE
  /\ currentProcess = 0
  /\ currentTaskId = 0
  /\ stopped = FALSE
  /\ reconnectDelay = 1000
  /\ kpc = "next"
  /\ kreq = Sent(0)
  /\ retryTimers = 0
  /\ conn = "connecting"
  /\ yreq = NoSync
  /\ spc = "none"
  /\ sreq = NoReq
  /\ stopChild = 0
  /\ timers = {}
  /\ procs = << >>
  /\ nFail = 0
  /\ nDrop = 0
  /\ cancelled = {}

\* the watcher at work, started on an empty store or on one with a pending task
SpecStart == (Init \/ InitSeeded) /\ [][NextRun \/ NextFault]_vars

SpecPanel == Init /\ [][NextPanel]_vars

SpecStdout == InitStreams /\ [][NextStdout]_vars

SpecQueue == Init /\ [][NextQueue]_vars

SpecStore == Init /\ [][NextStore]_vars

\* the watcher at work, faults included
Spec == Init /\ [][NextRun \/ NextFault]_vars

SpecServer == Init /\ [][NextServer]_vars

SpecTask == Init /\ [][NextTask]_vars

\* the watcher at work and its shutdown
SpecStop == Init /\ [][NextRun \/ NextStop]_vars

\* the watcher at work, faults included, with and without an agent timeout
SpecTimeout == InitTimeouts /\ [][NextRun \/ NextFault]_vars

\* the event connection of the watcher, lost and refused again and again,
\* while tasks are created and announced
NextReconnect ==
  \/ \E priority \in CreatePriorities : HumanCreate(priority)
  \/ \E id \in TaskIds : HumanDismiss(id)
  \/ SseDeliver
  \/ ConnectOk
  \/ SseDropAgain
  \/ ReconnectTimerFire
  \/ SyncServe
  \/ SyncResp
  \/ SyncFail

SpecReconnect == Init /\ [][NextReconnect]_vars

(***************************************************************************)
(* C2: getNextPending returns null exactly when no task is pending, and    *)
(* otherwise a pending task of the lowest priority tier among the pending  *)
(* tasks that was created no later than any other pending task of its tier.*)
(***************************************************************************)
PendingTasks == {queue[i] : i \in {j \in DOMAIN queue : queue[j].status = "pending"}}

Tier(t) == PRIORITY_ORDER[t.priority]

C2_NextPendingIsFirst ==
  ret.op = "getNextPending" =>
    /\ (ret.task = NoTask) <=> (PendingTasks = {})
    /\ PendingTasks # {} =>
         /\ ret.task \in PendingTasks
         /\ \A t \in PendingTasks :
              /\ Tier(ret.task) <= Tier(t)
              /\ Tier(ret.task) = Tier(t) => ret.task.createdAt <= t.createdAt

\* the answer is neither the first pending task of the document nor the only
\* one of its tier, and a pending task of a lower tier exists
C2_Witness ==
  /\ ret.op = "getNextPending"
  /\ ret.task # NoTask
  /\ \E t \in PendingTasks : Tier(t) > Tier(ret.task)
  /\ \E t \in PendingTasks : Tier(t) = Tier(ret.task) /\ t.createdAt > ret.task.createdAt
  /\ queue[1].status = "pending" /\ queue[1] # ret.task

(***************************************************************************)
(* C8: a read() after a crash inside write() or inside read()'s            *)
(* self-healing copy returns a whole document: the one of the last         *)
(* completed write or the one that was being written, never a torn one,    *)
(* never one older than the last completed write and so never the empty    *)
(* one once a write has completed.  Stated for a store nobody overwrites   *)
(* from outside, except for the crash inside the self-healing copy, which  *)
(* only happens after that.                                                *)
(***************************************************************************)
C8_CrashLeavesWholeDocument ==
  opc = "r_ret" =>
    /\ readResult # Thrown
    /\ readResult.version = 1
    /\ nCorrupt = 0 =>
         /\ LastCompleted <= readResult.items
         /\ readResult.items <= nWrites
         /\ nCrash <= 1 => readResult.items \in {LastCompleted, nWrites}
    /\ healCrash # 0 => readResult = Doc(healCrash)

\* the process died after the rename of a write that followed a completed one,
\* and the read returns the document that write was writing
C8_Witness ==
  /\ opc = "r_ret"
  /\ nCorrupt = 0
  /\ lastCrash = "w_ret"
  /\ LastCompleted >= 1
  /\ readResult = Doc(nWrites)
  /\ nWrites > LastCompleted

C10_ReadNeverRaises ==
  opc = "r_ret" =>
    /\ readResult # Thrown
    /\ readPath \in {"primary", "backup", "empty"}
    /\ readPath = "primary" => Parses(primary) /\ readResult = Parse(primary)
    /\ readPath = "backup" => Parses(backup) /\ readResult = Parse(backup)
    /\ readPath = "empty" => ~Parses(primary) /\ ~Parses(backup)
    /\ (~Parses(primary) /\ ~Parses(backup)) => readResult = emptyQueue

\* both files were overwritten with garbage after a write had completed
C10_Witness ==
  /\ opc = "r_ret"
  /\ primary = Garbage
  /\ backup = Garbage
  /\ completed # << >>
  /\ readResult = emptyQueue

(***************************************************************************)
(* C1: at most one agent subprocess is alive at any time, and a            *)
(* kickProcessing called while processing is true (from an event handler,  *)
(* a resync or a retry timer) sends no query, claims nothing and spawns    *)
(* nothing.                                                                *)
(***************************************************************************)
C1_SingleFlight ==
  /\ [](Cardinality(Alive) <= 1)
  /\ [][(processing /\ (SseDeliver \/ SyncResp \/ RetryTimerFire)) =>
          /\ UNCHANGED << processing, kpc, kreq, queue, currentTaskId >>
          /\ Len(procs') = Len(procs)]_vars

\* an agent runs for one task while the id of another waits in pendingQueue,
\* put there by an event handler whose kickProcessing returned at once
C1_Witness ==
  /\ Cardinality(Alive) = 1
  /\ processing
  /\ kpc = "run"
  /\ pendingQueue # << >>
  /\ Len(procs) = 2

(***************************************************************************)
(* C3: a task returned as next-pending with attempts at or over maxRetries *)
(* is skipped: nothing is written to the queue, its id leaves pendingQueue,*)
(* kickProcessing ends without a claim or a spawn; and no claim reaches    *)
(* the server and no subprocess is spawned for a task whose stored         *)
(* attempts are at or over maxRetries.                                     *)
(***************************************************************************)
C3_RetryLimit ==
  [][/\ (KpNextResp /\ kreq.task # NoTask /\ kreq.task.attempts >= maxRetries) =>
          /\ queue' = queue
          /\ ~Contains(pendingQueue', kreq.task.id)
          /\ kpc' = "idle"
          /\ ~processing'
          /\ procs' = procs
          /\ currentTaskId' = currentTaskId
     /\ (KpClaimServe \/ KpClaimResp) =>
          \/ getTask(queue, kreq.id) = NoTask
          \/ getTask(queue, kreq.id).attempts < maxRetries]_vars

\* kickProcessing holds the answer of /api/tasks/next, a pending task that
\* two retries have brought to the limit, and its id is in pendingQueue
C3_Witness ==
  /\ kpc = "next"
  /\ kreq.stage = "done"
  /\ kreq.task # NoTask
  /\ kreq.task.attempts >= maxRetries
  /\ Contains(pendingQueue, kreq.task.id)
  /\ getTask(queue, kreq.task.id).status = "pending"

(***************************************************************************)
(* C4: when the agent subprocess of the current task closes, the watcher   *)
(* reads the task; if the status read is in_progress it sends status       *)
(* pending, which sets the stored status to pending and changes nothing    *)
(* else of the task (attempts stay as they were); if it is review, or      *)
(* anything else, the watcher writes nothing.                              *)
(***************************************************************************)
C4_ResetAfterExit ==
  [][/\ \A c \in DOMAIN procs :
          (ChildExit(c) /\ kpc = "run" /\ currentProcess = c) =>
             /\ kpc' = "recon_get"
             /\ kreq' = Sent(procs[c].task)
             /\ queue' = queue
     /\ KpReconGetResp =>
          /\ queue' = queue
          /\ IF kreq.task.status = "in_progress"
             THEN kpc' = "recon_put" /\ kreq' = Sent(kreq.id)
             ELSE kpc' \in {"idle", "next"} /\ currentTaskId' = 0
     /\ KpReconPutServe =>
          IF getTask(queue, kreq.id) = NoTask
          THEN queue' = queue
          ELSE queue' = [queue EXCEPT ![FindIndex(queue, kreq.id)].status = "pending"]]_vars

\* the reset has been served for a task that a retry had given one attempt:
\* it is pending and still has one attempt
C4_Witness ==
  /\ kpc = "recon_put"
  /\ kreq.stage = "done"
  /\ getTask(queue, kreq.id).status = "pending"
  /\ getTask(queue, kreq.id).attempts = 1

(***************************************************************************)
(* C5 as stated: once stop() has returned, no task is in_progress and no   *)
(* subprocess is alive that was sent no signal (none of the requests of    *)
(* stop() having failed).                                                  *)
(***************************************************************************)
C5_StopLeavesNothingInProgress ==
  (spc \in {"done", "exited"} /\ nFail = 0) =>
    /\ \A i \in DOMAIN queue : queue[i].status # "in_progress"
    /\ \A c \in Alive : procs[c].sig # "none"

(***************************************************************************)
(* C6: a cancel for a known task sets its stored status to done and        *)
(* discards its activity list, so that a read of the task answers done and *)
(* a read of its activity answers no entries; the subscriber is sent       *)
(* task_cancel, then task_updated; the other tasks are left alone.  A      *)
(* cancel for an unknown id answers 404, changes nothing and broadcasts    *)
(* nothing.                                                                *)
(***************************************************************************)
C6_CancelEndsTask ==
  [][\A id \in TaskIds :
       CCancel(id) =>
         IF getTask(queue, id) # NoTask
         THEN /\ resp'.code = 200
              /\ queue' = [queue EXCEPT ![FindIndex(queue, id)].status = "done"]
              /\ HandleGetTask(queue', taskActivity', id).task.status = "done"
              /\ taskActivity' = [taskActivity EXCEPT ![id] = 0]
              /\ wsub => sse' = sse \o << Event("task_cancel", id, "none"),
                                         Event("task_updated", id, "done") >>
         ELSE /\ resp'.code = 404
              /\ UNCHANGED << queue, taskActivity, sse >>]_vars

\* a cancel has just been answered for a task; the task is done, it has no
\* activity list, and the subscriber has the two events to read
C6_Witness ==
  /\ resp.op = "cancel"
  /\ resp.code = 200
  /\ getTask(queue, resp.id).status = "done"
  /\ taskActivity[resp.id] = 0
  /\ sse = << Event("task_cancel", resp.id, "none"), Event("task_updated", resp.id, "done") >>

(***************************************************************************)
(* C7 as stated: once a task has been cancelled while the watcher held it  *)
(* as its current task, no claim and no reset of the watcher changes it    *)
(* (no request having failed and the event connection never broken).       *)
(***************************************************************************)
C7_CancelledNotRequeued ==
  [][((KpClaimServe \/ KpReconPutServe) /\ nFail = 0 /\ nDrop = 0) =>
       \A id \in cancelled : getTask(queue', id) = getTask(queue, id)]_vars

(***************************************************************************)
(* C11 as stated: a mutating call that writes the document computed it     *)
(* from the document as it is stored when it writes: no write of another   *)
(* call lies between its read and its write.                               *)
(***************************************************************************)
C11_NoLostUpdate ==
  [][\A s \in 1..MaxInflight :
       (inflight[s].op # "none" /\ inflight'[s].op = "none" /\ ret'.wrote) =>
          inflight[s].snap = queue]_vars

InvalidStatus(updates) ==
  "status" \in DOMAIN updates /\ updates["status"] \notin VALID_STATUSES

(***************************************************************************)
(* C13 as stated: an updateTask whose payload has an invalid status raises *)
(* the invalid-status error for every id, writes nothing and has no event  *)
(* broadcast; a PUT with such a payload is answered 400, writes nothing    *)
(* and broadcasts nothing.                                                 *)
(***************************************************************************)
C13_InvalidStatusAlwaysFails ==
  [][/\ \A s \in 1..MaxInflight :
          (inflight[s].op = "updateTask" /\ inflight'[s].op = "none"
             /\ InvalidStatus(inflight[s].updates)) =>
             /\ ret'.kind = "throw"
             /\ ret'.events = << >>
             /\ UNCHANGED << queue, lastUpdated, shots >>
     /\ \A s \in 1..MaxInflight, id \in 1..MaxTasks, updates \in TaskUpdates :
          (TUpdateTaskBegin(s, TRUE, id, updates) /\ InvalidStatus(updates)) =>
             /\ ret'.kind = "rejected"
             /\ ret'.code = 400
             /\ ret'.events = << >>
             /\ UNCHANGED << queue, lastUpdated, shots, inflight >>]_vars

(***************************************************************************)
(* C13: an updateTask whose payload has an invalid status raises the       *)
(* invalid-status error when the id is in the document it read and returns *)
(* null when it is not; either way it writes nothing and has no event      *)
(* broadcast.  A PUT with such a payload is answered 400 for every id,     *)
(* before any read, writes nothing and broadcasts nothing.                 *)
(***************************************************************************)
C13_InvalidStatusRejected ==
  [][/\ \A s \in 1..MaxInflight :
          (inflight[s].op = "updateTask" /\ inflight'[s].op = "none"
             /\ InvalidStatus(inflight[s].updates)) =>
             /\ ret'.kind = IF FindIndex(inflight[s].snap, inflight[s].id) # 0
                            THEN "throw" ELSE "null"
             /\ ~ret'.wrote
             /\ ret'.events = << >>
             /\ UNCHANGED << queue, lastUpdated, shots >>
     /\ \A s \in 1..MaxInflight, id \in 1..MaxTasks, updates \in TaskUpdates :
          (TUpdateTaskBegin(s, TRUE, id, updates) /\ InvalidStatus(updates)) =>
             /\ ret'.kind = "rejected"
             /\ ret'.code = 400
             /\ ret'.events = << >>
             /\ UNCHANGED << queue, lastUpdated, shots, inflight >>]_vars

\* an updateTask with an invalid status has raised on a task that is stored,
\* and the task is as it was created
C13_Witness ==
  /\ ret.op = "updateTask"
  /\ ret.kind = "throw"
  /\ getTask(queue, ret.id) # NoTask
  /\ getTask(queue, ret.id).status = "pending"

(***************************************************************************)
(* C14: updateTask, deleteTask and saveAfterScreenshot (with a screenshot  *)
(* that passes the check) on an id that is not in the document they read   *)
(* return null, false and null without raising and without calling         *)
(* write(): the document, its lastUpdated and the screenshot files stay as *)
(* they are, no cleanup is started, and the route answers 404 and          *)
(* broadcasts nothing.                                                     *)
(***************************************************************************)
C14_UnknownIdWritesNothing ==
  [][\A s \in 1..MaxInflight :
       (inflight[s].op \in {"updateTask", "deleteTask", "saveAfterScreenshot"}
          /\ inflight'[s].op = "none"
          /\ FindIndex(inflight[s].snap, inflight[s].id) = 0) =>
          /\ ret'.op = inflight[s].op
          /\ ret'.kind = IF inflight[s].op = "deleteTask" THEN "false" ELSE "null"
          /\ ret'.task = NoTask
          /\ ~ret'.wrote
          /\ ret'.code = 404
          /\ ret'.events = << >>
          /\ UNCHANGED << queue, lastUpdated, shots, cleanup, deleted >>]_vars

\* saveAfterScreenshot has returned null for an id no task has, while another
\* task is stored, and no after-screenshot file was written for that id
C14_Witness ==
  /\ ret.op = "saveAfterScreenshot"
  /\ ret.kind = "null"
  /\ queue # << >>
  /\ getTask(queue, ret.id) = NoTask
  /\ ~HasShot(shots, File(ret.id, "after"))

(***************************************************************************)
(* C15: once deleteTask has returned true for an id, no later getTask or   *)
(* getNextPending returns a task with that id.  (deleteTask itself has     *)
(* returned true before cleanupScreenshots runs, so a failing unlink       *)
(* cannot make it fail.)  A call that read the document before the delete  *)
(* wrote it writes the task back, so this does not hold.                   *)
(***************************************************************************)
C15_DeletedNeverReturned ==
  (ret.op \in {"getTask", "getNextPending"} /\ ret.task # NoTask) =>
     ret.task.id \notin deleted

C17_InvalidScreenshotChangesNothing ==
  [][LET fails(data) ==
           Len(data) < 16 \/ SubSeq(Decode(data), 1, 4) # << 137, 80, 78, 71 >>
         nothing ==
           /\ ret'.task = NoTask
           /\ ret'.events = << >>
           /\ ~ret'.wrote
           /\ UNCHANGED << queue, lastUpdated, shots, cleanup, deleted, inflight, nextId >>
         began == nCalls' = nCalls + 1
     IN /\ \A s \in 1..MaxInflight :
             (began /\ inflight'[s].op \in {"addTask", "saveAfterScreenshot"}) =>
                ~fails(inflight'[s].input.screenshot)
        /\ \A s \in 1..MaxInflight, http \in BOOLEAN, input \in TaskInputs :
             (began /\ fails(input.screenshot) /\ TAddTaskBegin(s, http, input)) =>
                /\ ret'.op = "addTask"
                /\ ret'.kind = IF http /\ input.note = "" THEN "rejected" ELSE "throw"
                /\ ret'.code = IF http /\ input.note = "" THEN 400 ELSE 500
                /\ nothing
        /\ \A s \in 1..MaxInflight, http \in BOOLEAN, id \in 1..MaxTasks, data \in Screenshots :
             (began /\ fails(data) /\ TSaveAfterBegin(s, http, id, data)) =>
                /\ ret'.op = "saveAfterScreenshot"
                /\ ret'.kind = IF http /\ data = << >> THEN "rejected" ELSE "throw"
                /\ ret'.code = IF http /\ data = << >> THEN 400 ELSE 500
                /\ nothing]_vars

\* saveAfterScreenshot has raised on a stored task, which still has no
\* after-screenshot and no file of that name
C17_Witness ==
  /\ ret.op = "saveAfterScreenshot"
  /\ ret.kind = "throw"
  /\ getTask(queue, ret.id) # NoTask
  /\ getTask(queue, ret.id).afterScreenshot = NoShot
  /\ ~HasShot(shots, File(ret.id, "after"))

(***************************************************************************)
(* C18: every change of the stored status of a task, whoever makes it, is  *)
(* one of pending -> in_progress, in_progress -> review, review -> done,   *)
(* review -> pending, in_progress -> done, in_progress -> pending.         *)
(* updateTask checks that the new status is a status, never where the task *)
(* comes from, so this does not hold.                                      *)
(***************************************************************************)
C18_OnlyListedTransitions ==
  [][\A i \in DOMAIN queue, j \in DOMAIN queue' :
       (queue[i].id = queue'[j].id /\ queue[i].status # queue'[j].status) =>
          << queue[i].status, queue'[j].status >> \in
             { << "pending", "in_progress" >>, << "in_progress", "review" >>,
               << "review", "done" >>, << "review", "pending" >>,
               << "in_progress", "done" >>, << "in_progress", "pending" >> }]_vars

(***************************************************************************)
(* C19: a task whose status is not in_progress, or that is not stored, has *)
(* no activity entries.  POST /api/tasks/:id/activity looks only at        *)
(* whether the task exists, so this does not hold.                         *)
(***************************************************************************)
C19_ActivityOnlyInProgress ==
  \A id \in TaskIds :
     taskActivity[id] > 0 =>
        /\ getTask(queue, id) # NoTask
        /\ getTask(queue, id).status = "in_progress"

(***************************************************************************)
(* C20: the watcher counts, for each task, the agents that exited without  *)
(* updating the task's status, and after maxCrashes of them it dispatches  *)
(* the task no more (until a person retries it, which gives the task an    *)
(* attempt).  startWatcher keeps no such count: the crash reset makes the  *)
(* task pending and the task is claimed again, so this does not hold.      *)
(***************************************************************************)
maxCrashes == 2

\* the agents of a task that closed without having reported
Crashes(id) ==
  Cardinality({c \in DOMAIN procs : /\ procs[c].task = id
                                    /\ procs[c].state = "closed"
                                    /\ ~procs[c].reported})

C20_CrashLoopHalts ==
  \A id \in TaskIds :
     (Crashes(id) >= maxCrashes /\ getTask(queue, id).attempts = 0 /\ id \notin cancelled) =>
        ~(kpc = "claim" /\ kreq.id = id)

(***************************************************************************)
(* C21: a broadcast writes its event exactly once, at the end of what was  *)
(* written before, to every response that is in sseClients at that moment  *)
(* and to no other; a connection that is opened later starts with nothing  *)
(* written (no replay); once the close listener has run the response is    *)
(* out of sseClients for good and nothing more is written to it, while the *)
(* others go on receiving every event.                                     *)
(***************************************************************************)
C21_BroadcastOnceToConnected ==
  [][/\ \A c \in 1..MaxConns :
          /\ (nSent' # nSent /\ c \in sseClients) =>
                streams'[c] = Append(streams[c], nSent')
          /\ (nSent' = nSent \/ c \notin sseClients) => streams'[c] = streams[c]
          /\ (conns[c] = "new" /\ conns'[c] # "new") =>
                c \in sseClients' /\ streams'[c] = << >>
          /\ conns[c] = "closed" =>
                conns'[c] = "closed" /\ c \notin sseClients'
          /\ conns[c] = "open" => c \in sseClients
     /\ nSent' \in {nSent, nSent + 1}]_vars

\* three events were broadcast: the first connection was closed after the
\* first one, the second was open for all three, the third was opened after
\* the second event
C21_Witness ==
  /\ nSent = 3
  /\ conns = << "closed", "open", "open" >>
  /\ streams = << << 1 >>, << 1, 2, 3 >>, << 3 >> >>

(***************************************************************************)
(* C22: getStatus returns, for each of the four statuses, the number of    *)
(* tasks of the document that have that status, and totalItems, the number *)
(* of tasks, is the sum of the four.                                       *)
(***************************************************************************)
C22_StatusCounts ==
  ret.op = "getStatus" =>
    LET n(st) == Cardinality({i \in DOMAIN queue : queue[i].status = st})
    IN /\ ret.status.pending = n("pending")
       /\ ret.status.inProgress = n("in_progress")
       /\ ret.status.review = n("review")
       /\ ret.status.done = n("done")
       /\ ret.status.totalItems = Len(queue)
       /\ ret.status.totalItems = ret.status.pending + ret.status.inProgress
                                    + ret.status.review + ret.status.done

\* getStatus on three tasks, one pending, one in progress and one done
C22_Witness ==
  /\ ret.op = "getStatus"
  /\ ret.status = [totalItems |-> 3, pending |-> 1, inProgress |-> 1, review |-> 0, done |-> 1]

(***************************************************************************)
(* C23: the answer to the watcher's GET /api/tasks/next is the store's     *)
(* pending task of the lowest priority tier and earliest creation at the   *)
(* time the server handles it (none when nothing is pending); the task the *)
(* watcher goes on to claim, and the task of every subprocess it spawns,   *)
(* is the task of that answer, whatever pendingQueue holds; when the       *)
(* answer none reaches the watcher pendingQueue is emptied, the cycle ends *)
(* and nothing is claimed or spawned.                                      *)
(***************************************************************************)
C23_DispatchesStoreAnswer ==
  [][/\ (kpc = "next" /\ kreq.stage = "sent" /\ kreq'.stage = "done") =>
          /\ (kreq'.task = NoTask) <=> (PendingTasks = {})
          /\ PendingTasks # {} =>
               /\ kreq'.task \in PendingTasks
               /\ \A t \in PendingTasks :
                    /\ Tier(kreq'.task) <= Tier(t)
                    /\ Tier(kreq'.task) = Tier(t) => kreq'.task.createdAt <= t.createdAt
     /\ (kpc = "next" /\ kpc' = "claim") =>
          /\ kreq.stage = "done"
          /\ kreq.task # NoTask
          /\ currentTaskId' = kreq.task.id
          /\ kreq' = Sent(kreq.task.id)
          /\ pendingQueue' = Without(pendingQueue, kreq.task.id)
     /\ (kpc = "next" /\ kreq.stage = "done" /\ kreq.task = NoTask /\ kpc' # "next"
           /\ nFail' = nFail) =>
          /\ pendingQueue' = << >>
          /\ kpc' = "idle"
          /\ ~processing'
          /\ UNCHANGED << procs, queue, currentTaskId >>
     /\ kpc' = "claim" => kpc \in {"next", "claim"} /\ kreq'.id = currentTaskId'
     /\ Len(procs') > Len(procs) =>
          /\ kpc = "claim"
          /\ procs'[Len(procs')].task = currentTaskId]_vars

\* the watcher holds the id of task 2 only and is claiming task 1, the older
\* pending task, whose notification is still on its way; task 2 is still
\* pending and still in pendingQueue
C23_Witness ==
  /\ kpc = "claim"
  /\ kreq.stage = "sent"
  /\ currentTaskId = 1
  /\ pendingQueue = << 2 >>
  /\ getTask(queue, 1).status = "pending"
  /\ getTask(queue, 2).status = "pending"
  /\ \E i \in DOMAIN sse : sse[i].id = 1

(***************************************************************************)
(* C24: a subprocess is spawned only when the claim, the PUT of status     *)
(* in_progress, was answered with the task in_progress.  fetchJSON         *)
(* resolves with the body of any answer, the 404 of a task that no longer  *)
(* exists included, and processTask goes on to spawn, so this does not     *)
(* hold.                                                                   *)
(***************************************************************************)
C24_SpawnOnlyAfterClaim ==
  [][Len(procs') > Len(procs) =>
       /\ kpc = "claim"
       /\ kreq.stage = "done"
       /\ kreq.task # NoTask
       /\ kreq.task.id = procs'[Len(procs')].task
       /\ kreq.task.status = "in_progress"]_vars

(***************************************************************************)
(* C25, in its finite form: when the watcher is connected and at rest (no  *)
(* dispatch cycle, no event or timer on its way, no subprocess running,    *)
(* no request or connection having failed) and no pending task is at the   *)
(* retry limit, no task that a retry returned to pending is still pending: *)
(* it was claimed.  In such a state the watcher has no step left to take,  *)
(* so a pending task found there is never claimed unless some new event    *)
(* arrives.  enqueue drops the id of the current task, so this does not    *)
(* hold.                                                                   *)
(***************************************************************************)
C25_PendingIsClaimed ==
  (/\ conn = "open" /\ wsub
   /\ kpc = "idle" /\ ~processing /\ currentTaskId = 0
   /\ sse = << >> /\ retryTimers = 0 /\ timers = {} /\ Alive = {}
   /\ spc = "none" /\ ~stopped
   /\ nFail = 0 /\ nDrop = 0
   /\ \A i \in DOMAIN queue :
        queue[i].status = "pending" => ~ReachedMaxRetries(queue[i])) =>
     \A i \in DOMAIN queue :
        ~(queue[i].status = "pending" /\ queue[i].attempts > 0)

(***************************************************************************)
(* C26: the SIGKILL that follows a cancel by five seconds goes to the      *)
(* subprocess that was running the cancelled task and was sent the         *)
(* SIGTERM, never to a subprocess of another task.  The timer kills        *)
(* whatever currentProcess is when it fires, so this does not hold.        *)
(***************************************************************************)
C26_CancelKillsOwnSubprocess ==
  [][\A c \in DOMAIN procs :
       (Timer("cancelKill", c) \in timers /\ Timer("cancelKill", c) \notin timers') =>
          \A d \in DOMAIN procs :
             procs[d].task # procs[c].task => procs'[d].sig = procs[d].sig]_vars

(***************************************************************************)
(* C27: a spawn starts the timeout timer of the new subprocess when        *)
(* agentTimeout > 0 and no timer otherwise.  When the timer expires the    *)
(* subprocess has not closed; it is sent SIGTERM, no other subprocess is   *)
(* touched, and the SIGKILL timer is set.  When that one expires, SIGKILL  *)
(* goes to the same subprocess if it is still currentProcess and to nobody *)
(* otherwise.  A subprocess that closes takes its timeout timer with it    *)
(* (and its SIGKILL timer can do nothing more), and a closed subprocess    *)
(* has no timeout timer and is sent nothing.                               *)
(***************************************************************************)
C27_TimeoutEscalation ==
  [][/\ Len(procs') > Len(procs) =>
          timers' = IF agentTimeout > 0
                    THEN timers \cup {Timer("timeout", Len(procs'))}
                    ELSE timers
     /\ \A c \in DOMAIN procs :
          LET term == Timer("timeout", c)
              kill == Timer("timeoutKill", c)
          IN /\ term \in timers => agentTimeout > 0 /\ procs[c].state = "running"
             /\ kill \in timers => agentTimeout > 0 /\ procs[c].state = "running"
             /\ (term \in timers /\ term \notin timers' /\ procs'[c].state = "running") =>
                   /\ kill \in timers'
                   /\ procs'[c].sig \in {"SIGTERM", "SIGKILL"}
                   /\ \A d \in DOMAIN procs : d # c => procs'[d] = procs[d]
             /\ (kill \in timers /\ kill \notin timers' /\ procs'[c].state = "running") =>
                   procs' = IF currentProcess = c
                            THEN [procs EXCEPT ![c].sig = "SIGKILL"]
                            ELSE procs
             /\ (procs[c].state = "running" /\ procs'[c].state = "closed") =>
                   term \notin timers' /\ kill \notin timers'
             /\ procs[c].state = "closed" =>
                   /\ procs'[c] = procs[c]
                   /\ term \notin timers' /\ kill \notin timers'
     /\ UNCHANGED agentTimeout]_vars

\* the second subprocess was sent SIGTERM by its timeout and the SIGKILL
\* timer is set for it, while the first one closed before its timer expired
C27_Witness ==
  /\ agentTimeout > 0
  /\ Len(procs) = 2
  /\ procs[1].state = "closed"
  /\ procs[2].state = "running" /\ procs[2].sig = "SIGTERM"
  /\ timers = {Timer("timeoutKill", 2)}



\* the order of the steps of one dispatch cycle, from the request for the next
\* task down to the reset of a crashed one
PhaseRank ==
  [next |-> 5, claim |-> 4, run |-> 3, recon_get |-> 2, recon_put |-> 1, idle |-> 0]

\* what is left of the present phase of the cycle: of a request, its answer by
\* the server and then the continuation of the watcher; of a run, the timeout,
\* then the 5 s up to SIGKILL, then the close of the subprocess
PhaseRest ==
  IF kpc = "run"
  THEN IF Timer("timeout", currentProcess) \in timers THEN 2
       ELSE IF Timer("timeoutKill", currentProcess) \in timers THEN 1
       ELSE 0
  ELSE IF kreq.stage = "sent" THEN 1 ELSE 0

\* the steps the watcher's run time sees to: the server answers a request, a
\* continuation whose promise is settled runs, a timer that is set expires,
\* and a subprocess that was sent SIGKILL closes
CycleStep ==
  \/ KpNextServe \/ KpNextResp
  \/ KpClaimServe \/ KpClaimResp
  \/ KpReconGetServe \/ KpReconGetResp
  \/ KpReconPutServe \/ KpReconPutResp
  \/ \E c \in DOMAIN procs :
       \/ TimeoutFire(c)
       \/ TimeoutKillFire(c)
       \/ procs[c].sig = "SIGKILL" /\ ChildExit(c)

\* where the bounds of the model hold the cycle up: the spawn that is due
\* would be one more than MaxSpawns, or the server cannot write the event of
\* its answer before the watcher has read the one in flight
HeldByBounds ==
  \/ kpc = "claim" /\ kreq.stage = "done" /\ Len(procs) = MaxSpawns
  \/ /\ kpc \in {"claim", "recon_put"} /\ kreq.stage = "sent"
     /\ wsub /\ Len(sse) = MaxSse /\ ENABLED SseDeliver

(***************************************************************************)
(* C28: with agentTimeout > 0 and subprocesses that die on SIGKILL, every  *)
(* dispatch cycle terminates.  A cycle starts from idle with processing    *)
(* set; a step that changes its phase takes it to a later phase (next,     *)
(* claim, run, status check, reset) or ends it; it ends with the           *)
(* current-task marker cleared and with processing reset, either for good  *)
(* or to be set again at once by the kickProcessing that the end of the    *)
(* cycle calls; within a phase what is left of the phase never grows; and  *)
(* in every state of a cycle a step that the run time sees to is possible  *)
(* and takes the cycle further, on every path.                             *)
(***************************************************************************)
C28_CycleTerminates ==
  /\ [][/\ processing <=> kpc # "idle"
        /\ kpc' # kpc =>
              IF kpc = "idle"
              THEN kpc' = "next" /\ processing'
              ELSE IF kpc' = "idle"
              THEN ~processing' /\ currentTaskId' = 0
              ELSE IF kpc' = "next"
              THEN processing' /\ currentTaskId' = 0 /\ pendingQueue' # << >>
              ELSE processing' /\ PhaseRank[kpc'] < PhaseRank[kpc]
        /\ (kpc' = kpc /\ kpc # "idle") => PhaseRest' <= PhaseRest]_vars
  /\ [](kpc # "idle" =>
          \/ ENABLED (CycleStep /\ (kpc' # kpc \/ PhaseRest' < PhaseRest))
          \/ HeldByBounds)

\* the agent of the second cycle ignored the SIGTERM of its timeout and has
\* been sent SIGKILL: the cycle waits for its close and for nothing else
C28_Witness ==
  /\ agentTimeout > 0
  /\ Len(procs) = 2
  /\ procs[2].state = "running" /\ procs[2].sig = "SIGKILL"
  /\ kpc = "run" /\ currentProcess = 2
  /\ currentTaskId = procs[2].task
  /\ processing
  /\ timers = {}
  /\ cancelled = {}


(***************************************************************************)
(* C29: after every disconnect the watcher resynchronizes before it        *)
(* reconnects: a connection that is down is followed by the request for    *)
(* all tasks and by nothing else, and connect() is called only when that   *)
(* request has been answered or has failed.  The answer lists the tasks    *)
(* pending in the store when it is made, and when the watcher has handled  *)
(* it each of them is in pendingQueue or is the current task.              *)
(***************************************************************************)
C29_ResyncBeforeReconnect ==
  [][/\ (conn = "down" /\ conn' # conn) =>
          conn' = "syncing" /\ yreq'.stage = "sent"
     /\ (conn = "syncing" /\ conn' # conn) =>
          conn' = "connecting" /\ yreq.stage # "none" /\ yreq' = NoSync
     /\ (conn' = "connecting" /\ conn # conn') => conn = "syncing"
     /\ (conn' = "open" /\ conn # conn') => conn = "connecting"
     /\ (yreq.stage = "sent" /\ yreq'.stage = "done") =>
          yreq'.pending = PendingIds(queue)
     /\ (yreq.stage = "done" /\ yreq' = NoSync /\ nFail' = nFail) =>
          \A i \in DOMAIN yreq.pending :
             \/ Contains(pendingQueue', yreq.pending[i])
             \/ yreq.pending[i] = currentTaskId']_vars

\* the connection broke once and the resynchronization has run: the watcher
\* is about to reconnect, it runs the agent of task 1, and task 2, pending in
\* the store, is in pendingQueue
C29_Witness ==
  /\ nDrop = 1 /\ nFail = 0
  /\ conn = "connecting" /\ yreq = NoSync
  /\ reconnectDelay = 2000
  /\ sse = << >>
  /\ currentTaskId = 1 /\ kpc = "run"
  /\ getTask(queue, 2).status = "pending"
  /\ pendingQueue = << 2 >>


\* the delay after k failed connections in a row, as the timer callback
\* computes it: Math.min(reconnectDelay * 2, 30000) from 1000
RECURSIVE DelayAfter(_)
DelayAfter(k) ==
  IF k = 0 THEN 1000
  ELSE IF DelayAfter(k - 1) * 2 < 30000 THEN DelayAfter(k - 1) * 2 ELSE 30000

(***************************************************************************)
(* C30: the reconnect delay is always one of 1000, 2000, 4000, 8000,       *)
(* 16000, 30000.  The wait of a failed connection is the delay at the      *)
(* failure: 1000 at the start and after every established connection,      *)
(* twice the wait before it, at most 30000, when no connection was         *)
(* established in between, which makes min(1000 * 2^(k-1), 30000) for the  *)
(* k-th failure in a row; nothing else changes the delay.  A disconnect    *)
(* leaves the watcher running, with its reconnect timer set.               *)
(***************************************************************************)
C30_ReconnectDelay ==
  /\ [](/\ reconnectDelay \in {1000, 2000, 4000, 8000, 16000, 30000}
        /\ \A k \in 1..MaxDisconnects :
             DelayAfter(k - 1) = IF 1000 * 2^(k - 1) < 30000 THEN 1000 * 2^(k - 1)
                                                             ELSE 30000
        /\ conn = "down" => /\ reconnectDelay <= DelayAfter(nDrop - 1)
                            /\ WatcherRuns /\ ~stopped
                            /\ ENABLED ReconnectTimerFire)
  /\ [][/\ (conn' = "down" /\ conn # "down") =>
             /\ reconnectDelay' = reconnectDelay
             /\ conn = "open" => reconnectDelay = 1000
        /\ (conn = "down" /\ conn' # "down") =>
             reconnectDelay' = IF reconnectDelay * 2 < 30000 THEN reconnectDelay * 2
                                                             ELSE 30000
        /\ (conn' = "open" /\ conn # "open") => reconnectDelay' = 1000
        /\ (conn' = conn \/ conn \in {"syncing", "open"}) =>
             reconnectDelay' = reconnectDelay]_vars
  /\ (reconnectDelay = 1000 /\ conn = "connecting" /\ nDrop = 0)

\* the sixth failed connection in a row waits 30000 ms
C30_Witness ==
  /\ conn = "down"
  /\ nDrop = 6
  /\ reconnectDelay = 30000


OnlyStatus(items, id, status) ==
  [i \in DOMAIN items |->
     IF items[i].id = id THEN [items[i] EXCEPT !.status = status] ELSE items[i]]

(***************************************************************************)
(* C32: the three writes of the watcher (the claim, the reset after the    *)
(* agent's exit, the reset by stop()) change the status of their task and  *)
(* no other field of any task; the attempts of a task grow only when a     *)
(* task in review is retried, never in a step of the watcher.              *)
(***************************************************************************)
C32_WatcherWritesOnlyStatus ==
  [][LET claim == kpc = "claim" /\ kreq.stage = "sent" /\ kreq'.stage = "done"
         reset == kpc = "recon_put" /\ kreq.stage = "sent" /\ kreq'.stage = "done"
         shut  == spc = "put" /\ sreq.stage = "sent" /\ sreq'.stage = "done"
     IN /\ claim => queue' = OnlyStatus(queue, kreq.id, "in_progress")
        /\ reset => queue' = OnlyStatus(queue, kreq.id, "pending")
        /\ shut => queue' = OnlyStatus(queue, sreq.id, "pending")
        /\ \A id \in TaskIds :
             getTask(queue', id).attempts > getTask(queue, id).attempts =>
                /\ ~claim /\ ~reset /\ ~shut
                /\ getTask(queue, id).status = "review"
                /\ getTask(queue', id).status = "pending"]_vars

\* stop() has reset the task of the agent it killed; the task had been
\* retried once and still has one attempt
C32_Witness ==
  /\ spc = "put" /\ sreq.stage = "done"
  /\ Len(procs) = 2 /\ procs[2].task = sreq.id
  /\ getTask(queue, sreq.id).status = "pending"
  /\ getTask(queue, sreq.id).attempts = 1


(***************************************************************************)
(* C33: a spawn that fails ends the run and nothing else.  The cycle goes  *)
(* from the claim to the status check of the same task with no subprocess  *)
(* added, none registered as current and no timer set; the status check    *)
(* resets the task when it reads in_progress, as after a crash; the cycle  *)
(* ends with processing reset (or set again by the re-kick), the           *)
(* current-task marker cleared and no current subprocess; and whenever no  *)
(* subprocess runs, none is registered, so the next claim spawns as usual. *)
(***************************************************************************)
C33_SpawnFailureContained ==
  /\ [][/\ (kpc = "claim" /\ kpc' = "recon_get") =>
              /\ procs' = procs /\ timers' = timers
              /\ currentProcess' = 0
              /\ currentTaskId' = currentTaskId /\ currentTaskId # 0
              /\ kreq' = Sent(currentTaskId)
              /\ processing' /\ queue' = queue
        /\ (kpc = "claim" /\ kpc' \notin {"claim", "recon_get", "run"}) =>
              currentTaskId' = 0
        /\ (kpc = "recon_get" /\ kpc' # kpc /\ nFail' = nFail) =>
              IF kreq.task.status = "in_progress"
              THEN kpc' = "recon_put" /\ kreq' = Sent(currentTaskId)
              ELSE currentTaskId' = 0
        /\ (kpc \in {"recon_get", "recon_put"} /\ kpc' \in {"idle", "next"}) =>
              /\ currentTaskId' = 0
              /\ currentProcess' = 0
              /\ processing' <=> kpc' = "next"]_vars
  /\ []((\A c \in DOMAIN procs : procs[c].state # "running") => currentProcess = 0)

\* the spawn for task 1 has failed: the cycle is at its status check, no
\* subprocess was ever spawned and the task is still in_progress
C33_Witness ==
  /\ kpc = "recon_get"
  /\ currentTaskId = 1
  /\ procs = << >>
  /\ currentProcess = 0
  /\ nFail = 1
  /\ getTask(queue, 1).status = "in_progress"
  /\ processing

(***************************************************************************)
(* C34: a human retry of a task in review sets its status to pending and   *)
(* its attempts to the attempts the document stored followed by exactly    *)
(* one new Attempt holding the task's prior agentNotes, filesModified and  *)
(* the rejection reason, and clears agentNotes, filesModified and          *)
(* afterScreenshot; earlier attempts are never removed or reordered, so    *)
(* the attempts length grows by exactly one per retry.                     *)
(***************************************************************************)
RetrySent(p) == panelRetry[p].stage = "put" /\ panelRetry'[p] = NoRetry

C34_RetryArchivesOneAttempt ==
  [][\A p \in Panels :
       (RetrySent(p) /\ getTask(queue, PanelTaskId).status = "review") =>
         LET old == getTask(queue, PanelTaskId)
             new == getTask(queue', PanelTaskId)
             last == new.attempts[Len(new.attempts)]
         IN /\ new.status = "pending"
            /\ Len(new.attempts) = Len(old.attempts) + 1
            /\ SubSeq(new.attempts, 1, Len(old.attempts)) = old.attempts
            /\ last.agentNotes = old.agentNotes
            /\ last.filesModified = old.filesModified
            /\ last.retryReason = panelRetry[p].retryReason
            /\ new.agentNotes = ""
            /\ new.filesModified = << >>
            /\ new.afterScreenshot = "null"]_vars

(***************************************************************************)
(* C35: for every stream of newline-delimited records and every way of     *)
(* splitting it into read chunks, the activities extracted and posted by   *)
(* the stdout listeners, the record left unterminated at the end of the    *)
(* stream included, are those posted when the whole stream arrives as a    *)
(* single chunk; a partial trailing record is not parsed before it is      *)
(* complete.                                                               *)
(***************************************************************************)
SingleChunk(bytes) ==
  LET d == OnData(<< >>, bytes)
  IN d.posted \o OnEnd(d.buffer)

C35_ChunkingIndependent ==
  /\ stdoutEnded => posted = SingleChunk(stdoutAll)
  /\ \A i \in DOMAIN stdoutBuffer : stdoutBuffer[i] # "nl"

(***************************************************************************)
(* C36: every task_created, task_updated and task_deleted event is         *)
(* broadcast only after the mutation it announces has been written to the  *)
(* queue document, so a subscriber that queries the store when it receives *)
(* the event, at any later moment, observes the mutation: a task announced *)
(* by task_created is in the document until a deleteTask of it returns     *)
(* true.  A request that fails (400, 404 or an error) broadcasts nothing.  *)
(***************************************************************************)
Announced(ev, items) ==
  CASE ev.type = "task_created" -> getTask(items, ev.id).status = "pending"
    [] ev.type = "task_updated" -> getTask(items, ev.id).status = ev.status
    [] ev.type = "task_deleted" -> FindIndex(items, ev.id) = 0
    [] OTHER -> FALSE

C36_BroadcastAfterWrite ==
  /\ [][\A s \in 1..MaxInflight :
          (inflight[s].op # "none" /\ inflight'[s].op = "none") =>
             /\ ret'.code \in {400, 404, 500} => ret'.events = << >>
             /\ \A i \in DOMAIN ret'.events :
                  ret'.wrote /\ Announced(ret'.events[i], queue')]_vars
  /\ [](\A id \in 1..nextId : id \notin deleted => FindIndex(queue, id) # 0)

(***************************************************************************)
(* C37: once stop() has been called the watcher claims no task, spawns no  *)
(* subprocess and opens no event connection, also when a kickProcessing or *)
(* a resynchronization was awaiting an answer of the server at the moment  *)
(* stop() was called.                                                      *)
(***************************************************************************)
C37_NothingStartsAfterStop ==
  [][stopped =>
       /\ ~(kpc # "claim" /\ kpc' = "claim")
       /\ Len(procs') = Len(procs)
       /\ ~(conn # "connecting" /\ conn' = "connecting")]_vars

(***************************************************************************)
(* C38 as stated: while the task getNextPending returns has reached the    *)
(* retry limit (maxRetries > 0) and stays pending with its priority, the   *)
(* watcher dispatches no task at all.                                      *)
(***************************************************************************)
Blocked(items) ==
  getNextPending(items) # NoTask /\ ReachedMaxRetries(getNextPending(items))

C38_NoDispatchWhileBlocked ==
  [][(Blocked(queue) /\ Blocked(queue')) => ~(kpc # "claim" /\ kpc' = "claim")]_vars

(***************************************************************************)
(* C38, amended: the next-pending query is answered with the task          *)
(* getNextPending returns at that moment, so with the task at the retry    *)
(* limit while that task is first; the cycle that was given a task at the  *)
(* limit ends at the skip: it claims nothing, spawns nothing, changes no   *)
(* task, takes that id from the hint list and starts no other cycle; and   *)
(* every claim is for the task its own query was answered with, which is   *)
(* under the limit.  A cycle whose query was answered before the task at   *)
(* the limit became first still claims the task it was given.              *)
(***************************************************************************)
C38_BlockedCycleEndsAtSkip ==
  [][/\ (kpc = "next" /\ kreq.stage = "sent" /\ kreq'.stage = "done") =>
          /\ kreq'.task = getNextPending(queue)
          /\ Blocked(queue) => ReachedMaxRetries(kreq'.task)
     /\ (kpc = "next" /\ kreq.stage = "done" /\ ReachedMaxRetries(kreq.task)
           /\ kreq' # kreq) =>
          /\ kpc' = "idle"
          /\ ~processing'
          /\ currentTaskId' = 0
          /\ procs' = procs
          /\ queue' = queue
          /\ nFail' = nFail =>
               /\ pendingQueue' = Without(pendingQueue, kreq.task.id)
               /\ retryTimers' = retryTimers
     /\ (kpc # "claim" /\ kpc' = "claim") =>
          /\ kpc = "next"
          /\ kreq.stage = "done"
          /\ kreq.task # NoTask
          /\ ~ReachedMaxRetries(kreq.task)
          /\ currentTaskId' = kreq.task.id]_vars

C38_Witness ==
  /\ kpc = "next"
  /\ kreq.stage = "done"
  /\ kreq.task.id = 1
  /\ ReachedMaxRetries(kreq.task)
  /\ Blocked(queue)
  /\ getTask(queue, 2).status = "pending"
  /\ ~ReachedMaxRetries(getTask(queue, 2))
  /\ Contains(pendingQueue, 2)

(***************************************************************************)
(* C39: when the next-pending query fails, no task is claimed, processing  *)
(* is reset to false, the local hint set is left as it was and exactly one *)
(* new dispatch attempt is scheduled; the failure does not end the         *)
(* watcher: the timer it set fires and runs kickProcessing, which queries  *)
(* again when nothing is in progress and the hint set is not empty.        *)
(***************************************************************************)
C39_NextQueryFailureRetries ==
  /\ [][/\ (kpc = "next" /\ nFail' = nFail + 1 /\ yreq' = yreq) =>
             /\ kpc' = "idle"
             /\ kreq' = NoReq
             /\ ~processing'
             /\ pendingQueue' = pendingQueue
             /\ retryTimers' = retryTimers + 1
             /\ currentTaskId = 0 /\ currentTaskId' = 0
             /\ queue' = queue
             /\ procs' = procs
             /\ << stopped', spc', conn', timers' >> = << stopped, spc, conn, timers >>
        /\ (retryTimers' = retryTimers - 1) =>
             /\ pendingQueue' = pendingQueue
             /\ IF ~processing /\ ~stopped /\ pendingQueue # << >>
                THEN processing' /\ kpc' = "next" /\ kreq' = Sent(0)
                ELSE << processing', kpc', kreq' >> = << processing, kpc, kreq >>]_vars
  /\ [](retryTimers > 0 => WatcherRuns /\ ENABLED RetryTimerFire)

C39_Witness ==
  /\ retryTimers = 1
  /\ nFail = 1
  /\ kpc = "idle"
  /\ ~processing
  /\ pendingQueue = << 1 >>
  /\ getTask(queue, 1).status = "pending"
  /\ currentTaskId = 0
  /\ procs = << >>

(***************************************************************************)
(* C40: in every reachable state of the watcher pendingQueue holds no id   *)
(* twice and does not hold the id of the task being processed; a           *)
(* notification for the current task or for an id that is already there    *)
(* is dropped and starts no dispatch.                                      *)
(***************************************************************************)
Notifies(e) == e.type = "task_created" \/ (e.type = "task_updated" /\ e.status = "pending")

C40_HintSetIsASet ==
  /\ [](/\ \A i, j \in DOMAIN pendingQueue : pendingQueue[i] = pendingQueue[j] => i = j
        /\ currentTaskId # 0 => ~Contains(pendingQueue, currentTaskId))
  /\ [][(/\ sse # << >>
         /\ sse' = Tail(sse)
         /\ Notifies(Head(sse))
         /\ Head(sse).id = currentTaskId \/ Contains(pendingQueue, Head(sse).id)) =>
           << pendingQueue', processing', kpc', kreq' >> =
             << pendingQueue, processing, kpc, kreq >>]_vars

C40_Witness ==
  /\ currentTaskId = 1
  /\ pendingQueue = << 2 >>
  /\ sse # << >>
  /\ Notifies(Head(sse))
  /\ Head(sse).id = 1
  /\ conn = "open"

====
